---- MODULE Spec2Model ----
(***************************************************************************)
(* The proxy-aware HTTP relay of src-tauri/src/lib.rs as a state machine:  *)
(* the two client factories, the one-shot relay send_http_request and the  *)
(* streaming relay send_stream_request with its spawned body pump.         *)
(*                                                                         *)
(* The specifications share the variables:                                 *)
(*   Spec          the streaming relay: MaxStreams concurrent calls, each  *)
(*                 with its own detached pump, all emitting on one event   *)
(*                 channel;                                                *)
(*   SpecHttp      the one-shot relay: one call at a time, any parameters; *)
(*   SpecCommands  the three commands that send a request, one kind of     *)
(*                 command per behaviour, test_proxy_connection also after *)
(*                 and beside a streaming call;                            *)
(*   SpecFactory   the two client factories applied to a ProxyConfig;      *)
(*   SpecFs        the file-system commands on a small working directory;  *)
(*   SpecPump      the streaming relay with its pump as a scheduled task;  *)
(*   SpecProxySettings  concurrent save_proxy_settings calls of            *)
(*                 storage_service.rs on the database of database.rs;      *)
(*   SpecStorage   the entity stores and the main chat history.            *)
(***************************************************************************)
EXTENDS Integers, Sequences, FiniteSets, TLC

(***************************************************************************)
(* Bounds of the model.                                                    *)
(***************************************************************************)
\* send_stream_request calls that may be in flight together
MaxStreams == 2
\* chunks the bodies of all streams deliver together before they must end
MaxChunks == 2
\* response headers of one one-shot response
MaxHeaders == 2
\* test_proxy_connection calls made one after another
MaxProbeCalls == 2
MaxFsCalls == 1
\* save_proxy_settings calls that may be in progress together
MaxSavers == 2
\* save_proxy_settings calls made over a behaviour
MaxProxySaves == 3
\* storage calls made one after another on the entity stores
MaxStorageCalls == 2

(***************************************************************************)
(* Option and Result values.                                               *)
(***************************************************************************)
None == <<>>
Some(x) == <<x>>
Ok(v) == [ok |-> TRUE, val |-> v]
Err(e) == [ok |-> FALSE, val |-> e]

(***************************************************************************)
(* Text.  The messages of the source are Chinese; a character outside      *)
(* ASCII is written <hex code point>.                                      *)
(***************************************************************************)
\* the texts of the relay commands and the client factories
Msg ==
    [\* lib.rs:131
     unsupported_proxy_type |->
         "<4E0D><652F><6301><7684><4EE3><7406><7C7B><578B>",
     \* lib.rs:210
     unsupported_method |->
         "<4E0D><652F><6301><7684>HTTP<65B9><6CD5>",
     \* lib.rs:202
     create_client_failed |->
         "<521B><5EFA>HTTP<5BA2><6237><7AEF><5931><8D25>: ",
     \* lib.rs:273
     create_stream_client_failed |->
         "<521B><5EFA><6D41><5F0F>HTTP<5BA2><6237><7AEF><5931><8D25>: ",
     \* lib.rs:258
     http_request_failed |->
         "HTTP<8BF7><6C42><5931><8D25>: ",
     \* lib.rs:252
     read_body_failed |->
         "<8BFB><53D6><54CD><5E94><4F53><5931><8D25>: ",
     \* lib.rs:303
     http_status_error |->
         "HTTP<9519><8BEF>: ",
     \* lib.rs:343
     stream_read_failed |->
         "<8BFB><53D6><6D41><5F0F><6570><636E><5931><8D25>: ",
     \* lib.rs:363
     stream_started |->
         "<6D41><5F0F><8BF7><6C42><5DF2><542F><52A8><FF0C>Stream ID: ",
     \* lib.rs:367
     stream_request_failed |->
         "<6D41><5F0F>HTTP<8BF7><6C42><5931><8D25>: ",
     \* lib.rs:1022
     create_proxy_client_failed |->
         "<521B><5EFA><4EE3><7406><5BA2><6237><7AEF><5931><8D25>: ",
     \* lib.rs:1033
     proxy_test_ok |->
         "<4EE3><7406><8FDE><63A5><6210><529F><FF01><5DF2><6210><529F><8BBF><95EE> Google (<72B6><6001><7801>: ",
     \* lib.rs:1035
     proxy_test_status |->
         "<4EE3><7406><6D4B><8BD5><5931><8D25><FF0C><72B6><6001><7801>: ",
     \* lib.rs:1038
     proxy_connect_failed |->
         "<4EE3><7406><8FDE><63A5><5931><8D25>: ",
     \* lib.rs:136 (reqwest's report of a proxy URL it cannot parse)
     proxy_url_rejected |->
         "builder error"]

\* str::strip_prefix
StripPrefix(s, p) ==
    IF Len(s) >= Len(p) /\ SubSeq(s, 1, Len(p)) = p
    THEN Some(SubSeq(s, Len(p) + 1, Len(s)))
    ELSE None

\* t occurs in s
Contains(s, t) ==
    \E i \in 1..(Len(s) - Len(t) + 1) : SubSeq(s, i, i + Len(t) - 1) = t

\* str::to_uppercase on the method names the model draws
ToUppercase(m) ==
    CASE m = "get" -> "GET"
      [] m = "post" -> "POST"
      [] m = "Put" -> "PUT"
      [] m = "delete" -> "DELETE"
      [] m = "patch" -> "PATCH"
      [] OTHER -> m

(***************************************************************************)
(* std::str::from_utf8: the code points of a well-formed byte sequence,    *)
(* or Invalid.                                                             *)
(***************************************************************************)
Invalid == <<-1>>

IsCont(b) == b >= 128 /\ b <= 191

RECURSIVE FromUtf8(_)
FromUtf8(bytes) ==
    IF bytes = <<>> THEN <<>>
    ELSE LET b0 == bytes[1]
             n == Len(bytes)
             width == IF b0 < 128 THEN 1
                      ELSE IF b0 >= 194 /\ b0 <= 223 THEN 2
                      ELSE IF b0 >= 224 /\ b0 <= 239 THEN 3
                      ELSE IF b0 >= 240 /\ b0 <= 244 THEN 4
                      ELSE 0
         IN  IF width = 0 \/ n < width THEN Invalid
             ELSE LET wellFormed ==
                          /\ \A i \in 2..width : IsCont(bytes[i])
                          /\ (b0 = 224 => bytes[2] >= 160)
                          /\ (b0 = 237 => bytes[2] <= 159)
                          /\ (b0 = 240 => bytes[2] >= 144)
                          /\ (b0 = 244 => bytes[2] <= 143)
                      cp == CASE width = 1 -> b0
                              [] width = 2 -> (b0 - 192) * 64 + (bytes[2] - 128)
                              [] width = 3 -> (b0 - 224) * 4096 + (bytes[2] - 128) * 64
                                              + (bytes[3] - 128)
                              [] width = 4 -> (b0 - 240) * 262144 + (bytes[2] - 128) * 4096
                                              + (bytes[3] - 128) * 64 + (bytes[4] - 128)
                      rest == FromUtf8(SubSeq(bytes, width + 1, n))
                  IN  IF ~wellFormed \/ rest = Invalid THEN Invalid
                      ELSE <<cp>> \o rest

(***************************************************************************)
(* Inputs.                                                                 *)
(***************************************************************************)
ProxyCfg(en, ty, h, p, ra, u, pw) ==
    [enabled |-> en, proxy_type |-> ty, host |-> h, port |-> p,
     requires_auth |-> ra, username |-> u, password |-> pw]

\* an enabled configuration of a type the factories do not know
BadTypeProxy == ProxyCfg(TRUE, "ftp", "proxy.local", 21, FALSE, None, None)

\* proxy_config values the streaming calls of Spec are given
StreamProxies == {None, Some(BadTypeProxy)}
\* method values the streaming calls of Spec are given
StreamMethods == {"post", "PATCH"}
StreamIdList == <<"s1", "s2">>
\* statuses a streaming call is answered with
StreamStatuses == {200, 300, 500}
\* what reqwest reports when send() fails
SendErrors == {"connection refused"}
\* what reqwest reports when a chunk read fails
ReadErrors == {"connection reset", "error decoding response body"}

\* proxy_config values the one-shot calls of SpecHttp are given
HttpProxies ==
    {None,
     Some(ProxyCfg(FALSE, "ftp", "proxy.local", 8080, FALSE, None, None)),
     Some(ProxyCfg(TRUE, "socks5", "socks5://proxy.local", 1080, TRUE,
                   Some("user"), Some("secret"))),
     Some(ProxyCfg(TRUE, "http", "proxy.local", 8080, TRUE, Some("user"), None)),
     Some(BadTypeProxy)}
\* method values the one-shot calls are given
HttpMethods == {"GET", "post", "Put", "delete", "PATCH", ""}
\* request headers and bodies the one-shot calls are given
RequestHeaders == {None, Some([name |-> "authorization", value |-> "Bearer k"])}
RequestBodies == {None, Some("{}")}
\* statuses a one-shot call is answered with
HttpStatuses == {199, 200, 299, 300, 404}
\* response headers: two values of one name, and one value that is no text
ResponseHeaderPool ==
    {[name |-> "content-type", value |-> <<97>>],
     [name |-> "content-type", value |-> <<98>>],
     [name |-> "x-trace", value |-> <<255>>]}
\* response bodies, as response.text() decodes them
ResponseBodies == {"", "not found"}

\* proxy_config values test_proxy_connection is given
ProbeConfigs ==
    {ProxyCfg(TRUE, "socks5", "socks5://proxy.local", 1080, TRUE,
              Some("user"), Some("secret")),
     ProxyCfg(FALSE, "http", "proxy.local", 8080, FALSE, None, None),
     BadTypeProxy}
\* statuses the probe GET is answered with
ProbeStatuses == {199, 200, 299, 300, 404}

\* the fields the factories are given: every proxy type they know and one
\* they do not, a host bare, under each of the three prefixes, and one that
\* is no host at all
FactoryConfigs ==
    {None} \cup
    {Some(ProxyCfg(en, ty, h, p, ra, u, pw)) :
        en \in BOOLEAN, ty \in {"http", "https", "socks5", "ftp"},
        h \in {"proxy.local", "http://proxy.local", "https://proxy.local",
                "socks5://proxy.local", "bad host"},
        p \in {1080, 8080}, ra \in BOOLEAN,
        u \in {None, Some("user")}, pw \in {None, Some("secret")}}

\* path arguments of the fs commands: five inside the working directory, then
\* one leaving it at once, one leaving a directory of it, an absolute one and
\* two with an extension that is not allowed
FsPaths ==
    {".", "a.txt", "A.TXT", "d", "d/b.md",
     "../a.txt", "d/../a.txt", "/a.txt", "a.exe", "d/b.EXE"}
\* what the system does to a call: serves it, denies the access, or leads
\* the path out of the working directory through a symbolic link
FsEnvs ==
    {[io |-> TRUE, link_out |-> FALSE],
     [io |-> FALSE, link_out |-> FALSE],
     [io |-> TRUE, link_out |-> TRUE]}
\* the limit of fs_write_file on the bytes of its content
MaxContentLen == 10 * 1024 * 1024
\* content lengths fs_write_file is given: two bytes, and one byte too many
ContentLens == {2, MaxContentLen + 1}
\* pattern and options fs_search_files is given
FsSearches ==
    {[pattern |-> "TXT",
      options |-> [recursive |-> <<>>, case_sensitive |-> <<>>, file_only |-> <<>>]],
     [pattern |-> "d",
      options |-> [recursive |-> <<FALSE>>, case_sensitive |-> <<TRUE>>,
                   file_only |-> <<FALSE>>]],
     [pattern |-> "(",
      options |-> [recursive |-> <<>>, case_sensitive |-> <<>>, file_only |-> <<>>]]}

\* body chunks: "a", "e-acute", a lone lead byte of a two-byte sequence
Chunks == {<<97>>, <<195, 169>>, <<195>>}

(***************************************************************************)
(* The client factories.                                                   *)
(***************************************************************************)
ClientTimeoutSecs == 300
UserAgent == "AiChat/1.0"

\* reqwest::Proxy::all: a URL with a space in its host does not parse, the
\* other URLs the factories compose from the hosts of the model do
ProxyAll(url) ==
    IF Contains(url, " ") THEN Err(Msg.proxy_url_rejected)
    ELSE Ok([url |-> url, auth |-> None])

\* only the prefix of the configured proxy_type removed from the host
HttpProxyForOwnPrefix(config) ==
    LET h == config.host
        s1 == StripPrefix(h, config.proxy_type \o "://")
        clean_host == IF s1 # None THEN s1[1] ELSE h
        ty == config.proxy_type
        proxy_url ==
            CASE ty = "http" -> Ok("http://" \o clean_host \o ":" \o ToString(config.port))
              [] ty = "https" -> Ok("https://" \o clean_host \o ":" \o ToString(config.port))
              [] ty = "socks5" -> Ok("socks5://" \o clean_host \o ":" \o ToString(config.port))
              [] OTHER -> Err(Msg.unsupported_proxy_type)
    IN  IF ~proxy_url.ok THEN proxy_url
        ELSE LET proxy == ProxyAll(proxy_url.val)
             IN  IF ~proxy.ok THEN proxy
                 ELSE IF /\ config.requires_auth
                         /\ config.username # None
                         /\ config.password # None
                      THEN Ok([proxy.val EXCEPT
                                  !.auth = Some(<<config.username[1], config.password[1]>>)])
                      ELSE proxy

\* an unknown proxy_type taken for http
HttpProxyForDefaultHttp(config) ==
    LET h == config.host
        s1 == StripPrefix(h, "http://")
        s2 == IF s1 # None THEN s1 ELSE StripPrefix(h, "https://")
        s3 == IF s2 # None THEN s2 ELSE StripPrefix(h, "socks5://")
        clean_host == IF s3 # None THEN s3[1] ELSE h
        ty == IF config.proxy_type \in {"https", "socks5"} THEN config.proxy_type ELSE "http"
        proxy == ProxyAll(ty \o "://" \o clean_host \o ":" \o ToString(config.port))
    IN  IF /\ config.requires_auth
           /\ config.username # None
           /\ config.password # None
        THEN Ok([proxy.val EXCEPT
                    !.auth = Some(<<config.username[1], config.password[1]>>)])
        ELSE proxy

\* the proxy of create_http_client's `if config.enabled` block
HttpProxyFor(config) ==
    LET h == config.host
        s1 == StripPrefix(h, "http://")
        s2 == IF s1 # None THEN s1 ELSE StripPrefix(h, "https://")
        s3 == IF s2 # None THEN s2 ELSE StripPrefix(h, "socks5://")
        clean_host == IF s3 # None THEN s3[1] ELSE h
        ty == config.proxy_type
        proxy_url ==
            CASE ty = "http" -> Ok("http://" \o clean_host \o ":" \o ToString(config.port))
              [] ty = "https" -> Ok("https://" \o clean_host \o ":" \o ToString(config.port))
              [] ty = "socks5" -> Ok("socks5://" \o clean_host \o ":" \o ToString(config.port))
              [] OTHER -> Err(Msg.unsupported_proxy_type)
    IN  IF ~proxy_url.ok THEN proxy_url
        ELSE LET proxy == ProxyAll(proxy_url.val)
             IN  IF ~proxy.ok THEN proxy
                 ELSE IF /\ config.requires_auth
                         /\ config.username # None
                         /\ config.password # None
                      THEN Ok([proxy.val EXCEPT
                                  !.auth = Some(<<config.username[1], config.password[1]>>)])
                      ELSE proxy

\* a client factory that does not look at `enabled`
create_http_client_always(proxy_config) ==
    LET client_builder == [timeout |-> Some(ClientTimeoutSecs), user_agent |-> UserAgent,
                           proxy |-> None]
    IN  IF proxy_config # None
        THEN LET proxy == HttpProxyFor(proxy_config[1])
             IN  IF proxy.ok THEN Ok([client_builder EXCEPT !.proxy = Some(proxy.val)])
                 ELSE proxy
        ELSE Ok(client_builder)

create_http_client(proxy_config) ==
    LET client_builder == [timeout |-> Some(ClientTimeoutSecs), user_agent |-> UserAgent,
                           proxy |-> None]
    IN  IF proxy_config # None /\ proxy_config[1].enabled
        THEN LET proxy == HttpProxyFor(proxy_config[1])
             IN  IF proxy.ok THEN Ok([client_builder EXCEPT !.proxy = Some(proxy.val)])
                 ELSE proxy
        ELSE Ok(client_builder)

\* credentials attached as soon as a username is there
StreamProxyForAnyCred(config) ==
    LET h == config.host
        s1 == StripPrefix(h, "http://")
        s2 == IF s1 # None THEN s1 ELSE StripPrefix(h, "https://")
        s3 == IF s2 # None THEN s2 ELSE StripPrefix(h, "socks5://")
        clean_host == IF s3 # None THEN s3[1] ELSE h
        ty == config.proxy_type
        proxy_url ==
            CASE ty = "http" -> Ok("http://" \o clean_host \o ":" \o ToString(config.port))
              [] ty = "https" -> Ok("https://" \o clean_host \o ":" \o ToString(config.port))
              [] ty = "socks5" -> Ok("socks5://" \o clean_host \o ":" \o ToString(config.port))
              [] OTHER -> Err(Msg.unsupported_proxy_type)
    IN  IF ~proxy_url.ok THEN proxy_url
        ELSE LET proxy == ProxyAll(proxy_url.val)
             IN  IF ~proxy.ok THEN proxy
                 ELSE IF config.requires_auth /\ config.username # None
                      THEN Ok([proxy.val EXCEPT
                                  !.auth = Some(<<config.username[1],
                                                  IF config.password # None
                                                  THEN config.password[1] ELSE "">>)])
                      ELSE proxy

\* the streaming factory without the cleaning of the host
StreamProxyForRawHost(config) ==
    LET clean_host == config.host
        ty == config.proxy_type
        proxy_url ==
            CASE ty = "http" -> Ok("http://" \o clean_host \o ":" \o ToString(config.port))
              [] ty = "https" -> Ok("https://" \o clean_host \o ":" \o ToString(config.port))
              [] ty = "socks5" -> Ok("socks5://" \o clean_host \o ":" \o ToString(config.port))
              [] OTHER -> Err(Msg.unsupported_proxy_type)
    IN  IF ~proxy_url.ok THEN proxy_url
        ELSE LET proxy == ProxyAll(proxy_url.val)
             IN  IF ~proxy.ok THEN proxy
                 ELSE IF /\ config.requires_auth
                         /\ config.username # None
                         /\ config.password # None
                      THEN Ok([proxy.val EXCEPT
                                  !.auth = Some(<<config.username[1], config.password[1]>>)])
                      ELSE proxy

\* the proxy of create_stream_http_client's `if config.enabled` block
StreamProxyFor(config) ==
    LET h == config.host
        s1 == StripPrefix(h, "http://")
        s2 == IF s1 # None THEN s1 ELSE StripPrefix(h, "https://")
        s3 == IF s2 # None THEN s2 ELSE StripPrefix(h, "socks5://")
        clean_host == IF s3 # None THEN s3[1] ELSE h
        ty == config.proxy_type
        proxy_url ==
            CASE ty = "http" -> Ok("http://" \o clean_host \o ":" \o ToString(config.port))
              [] ty = "https" -> Ok("https://" \o clean_host \o ":" \o ToString(config.port))
              [] ty = "socks5" -> Ok("socks5://" \o clean_host \o ":" \o ToString(config.port))
              [] OTHER -> Err(Msg.unsupported_proxy_type)
    IN  IF ~proxy_url.ok THEN proxy_url
        ELSE LET proxy == ProxyAll(proxy_url.val)
             IN  IF ~proxy.ok THEN proxy
                 ELSE IF /\ config.requires_auth
                         /\ config.username # None
                         /\ config.password # None
                      THEN Ok([proxy.val EXCEPT
                                  !.auth = Some(<<config.username[1], config.password[1]>>)])
                      ELSE proxy

\* a streaming client with the total timeout of the one-shot client
create_stream_http_client_bounded(proxy_config) ==
    LET client_builder == [timeout |-> Some(ClientTimeoutSecs), user_agent |-> UserAgent,
                           proxy |-> None]
    IN  IF proxy_config # None /\ proxy_config[1].enabled
        THEN LET proxy == StreamProxyFor(proxy_config[1])
             IN  IF proxy.ok THEN Ok([client_builder EXCEPT !.proxy = Some(proxy.val)])
                 ELSE proxy
        ELSE Ok(client_builder)

create_stream_http_client(proxy_config) ==
    LET client_builder == [timeout |-> None, user_agent |-> UserAgent, proxy |-> None]
    IN  IF proxy_config # None /\ proxy_config[1].enabled
        THEN LET proxy == StreamProxyFor(proxy_config[1])
             IN  IF proxy.ok THEN Ok([client_builder EXCEPT !.proxy = Some(proxy.val)])
                 ELSE proxy
        ELSE Ok(client_builder)

\* the method match of send_stream_request
StreamMethodAllowed(method) == ToUppercase(method) \in {"GET", "POST", "PUT", "DELETE"}

(***************************************************************************)
(* State.                                                                  *)
(***************************************************************************)
VARIABLES
    streams,    \* streams[c]: the c-th send_stream_request call, its pump, and
                \* what its response body holds ready for the pump
    events,     \* the StreamEvents emitted on "stream-event", oldest first
    emitters,   \* emitters[i]: the call that emitted events[i]
    http,       \* the send_http_request call
    probe,      \* the test_proxy_connection call
    built,      \* what the two client factories made of one ProxyConfig
    files,      \* the working directory: what is at each path under it
    fscall,     \* the last file-system command: arguments, fs calls, result
    db,         \* the SQLite database: its tables and its connection settings
    storage     \* the calls of the storage service: each caller's call in
                \* progress or last call, and the settings inserted last

vars == <<streams, events, emitters, http, probe, built, files, fscall, db, storage>>

\* what the actions of one component leave alone
nonStreamVars == <<http, probe, built, files, fscall, db, storage>>
nonHttpVars == <<streams, events, emitters, probe, built, files, fscall, db, storage>>
nonProbeVars == <<streams, events, emitters, http, built, files, fscall, db, storage>>
nonFactoryVars == <<streams, events, emitters, http, probe, files, fscall, db, storage>>
nonFsVars == <<streams, events, emitters, http, probe, built, db, storage>>
nonStorageVars == <<streams, events, emitters, http, probe, built, files, fscall>>

StreamCalls == 1..MaxStreams

\* a call slot nobody has invoked yet
IdleStream ==
    [pc |-> "idle", stream_id |-> "", method |-> "", proxy_config |-> None,
     sent |-> 0, status |-> None, ret |-> None, pump |-> "none", reads |-> <<>>,
     ready |-> None]

\* the one-shot call before its first invocation
IdleHttp ==
    [pc |-> "idle", method |-> "", proxy_config |-> None, client |-> None,
     request |-> None, sent |-> 0, status |-> None, headers |-> {},
     body_read |-> None, ret |-> None]

\* test_proxy_connection before its first invocation
IdleProbe ==
    [pc |-> "idle", proxy_config |-> None, client |-> None, sent |-> 0,
     status |-> None, ret |-> None, calls |-> 0]

\* the working directory "." and the paths below it the model follows
FsNodes == {".", "a.txt", "A.TXT", "d", "d/b.md"}

\* the working directory at the start: a file, and a directory with a file
InitFiles ==
    [n \in FsNodes |-> CASE n = "." -> [kind |-> "dir", len |-> 0]
                         [] n = "a.txt" -> [kind |-> "file", len |-> 5]
                         [] n = "d" -> [kind |-> "dir", len |-> 0]
                         [] n = "d/b.md" -> [kind |-> "file", len |-> 5]
                         [] OTHER -> [kind |-> "absent", len |-> 0]]

\* no file-system command made yet
IdleFsCall ==
    [cmd |-> "", args |-> <<>>, lookups |-> <<>>, ops |-> <<>>, ret |-> <<>>,
     calls |-> 0]

(***************************************************************************)
(* The database of database.rs and the calls of storage_service.rs.  A     *)
(* row of an entity table is its key, the key its FOREIGN KEY column       *)
(* holds ("" in a table without one) and the rest of its columns as one    *)
(* value.  A statement runs at once and as a whole; a call made of         *)
(* several statements can be overtaken between two of them.                *)
(***************************************************************************)
\* the entity tables of init_schema
Tables ==
    {"ai_providers", "agents", "agent_sessions", "messages", "scenes",
     "scene_sessions", "scene_messages", "mcp_server_configs", "app_settings"}

\* the table the FOREIGN KEY clause of table t refers to
ParentTable(t) ==
    CASE t = "agent_sessions" -> "agents"
      [] t = "messages" -> "agent_sessions"
      [] t = "scene_sessions" -> "scenes"
      [] t = "scene_messages" -> "scene_sessions"
      [] OTHER -> ""

\* a database file with its tables created and empty; foreign_keys is the
\* PRAGMA of the pool's connections
EmptyDb(foreign_keys) ==
    [foreign_keys |-> foreign_keys, seq |-> 0, proxy_settings |-> {},
     rows |-> [t \in Tables |-> {}]]

\* a database file earlier runs have left: one agent with the main chat
\* session and another session, and a message in each of the two
SeededDb(foreign_keys) ==
    [EmptyDb(foreign_keys) EXCEPT
        !.rows = [t \in Tables |->
            CASE t = "agents" -> {[id |-> "a1", parent |-> "", data |-> "v1"]}
              [] t = "agent_sessions" ->
                    {[id |-> "main_chat", parent |-> "a1", data |-> "v1"],
                     [id |-> "s1", parent |-> "a1", data |-> "v1"]}
              [] t = "messages" ->
                    {[id |-> "m1", parent |-> "main_chat", data |-> "v1"],
                     [id |-> "m2", parent |-> "s1", data |-> "v1"]}
              [] OTHER -> {}]]

\* the callers of the storage service
Savers == 1..MaxSavers

\* a caller that has made no call yet
IdleCall ==
    [fn |-> "", table |-> "", arg |-> <<>>, i |-> 0, ret |-> None,
     before |-> EmptyDb(TRUE)]

\* no call made yet
IdleStorage == [call |-> [k \in Savers |-> IdleCall], inserted |-> None, calls |-> 0]

Init ==
    /\ streams = [c \in StreamCalls |-> IdleStream]
    /\ events = <<>>
    /\ emitters = <<>>
    /\ http = IdleHttp
    /\ probe = IdleProbe
    /\ built = None
    /\ files = InitFiles
    /\ fscall = IdleFsCall
    /\ db = EmptyDb(TRUE)
    /\ storage = IdleStorage

(***************************************************************************)
(* StreamEvent values.                                                     *)
(***************************************************************************)
DataEvent(sid, text) ==
    [stream_id |-> sid, event_type |-> "data", data |-> Some(text), error |-> None]
ErrorEvent(sid, msg) ==
    [stream_id |-> sid, event_type |-> "error", data |-> None, error |-> Some(msg)]
EndEvent(sid) ==
    [stream_id |-> sid, event_type |-> "end", data |-> None, error |-> None]

\* app.emit("stream-event", ..) by call c, once per event of evs
Emit(c, evs) ==
    /\ events' = events \o evs
    /\ emitters' = emitters \o [i \in 1..Len(evs) |-> c]

(***************************************************************************)
(* send_stream_request.                                                    *)
(***************************************************************************)
\* is_success without its upper limit
IsSuccessNoUpper(status) == status >= 200

\* StatusCode::is_success
IsSuccess(status) == status >= 200 /\ status <= 299

\* The stream_id values call c is given: one an earlier call has, or the
\* first unused one (which unused one it is makes no difference).
FreshOrUsedIds(c) ==
    LET used == {streams[d].stream_id : d \in 1..(c - 1)}
        n == Cardinality(used)
    IN  {StreamIdList[i] : i \in 1..(IF n < Len(StreamIdList) THEN n + 1 ELSE n)}

\* a refusal before the send that is also emitted as an error event
StreamInvokeEmitting(c) ==
    /\ streams[c].pc = "idle"
    /\ \A d \in 1..(c - 1) : streams[d].pc # "idle"
    /\ \E sid \in FreshOrUsedIds(c), m \in StreamMethods, pcfg \in StreamProxies :
         LET client == create_stream_http_client(pcfg)
             call == [streams[c] EXCEPT !.stream_id = sid, !.method = m,
                                        !.proxy_config = pcfg]
         IN  IF ~client.ok
             THEN /\ streams' = [streams EXCEPT ![c] =
                         [call EXCEPT !.pc = "returned",
                             !.ret = Some(Err(Msg.create_stream_client_failed \o client.val))]]
                  /\ Emit(c, <<ErrorEvent(sid, Msg.create_stream_client_failed
                                                \o client.val)>>)
             ELSE IF ~StreamMethodAllowed(m)
             THEN /\ streams' = [streams EXCEPT ![c] =
                         [call EXCEPT !.pc = "returned",
                                      !.ret = Some(Err(Msg.unsupported_method))]]
                  /\ Emit(c, <<ErrorEvent(sid, Msg.unsupported_method)>>)
             ELSE /\ streams' = [streams EXCEPT ![c] =
                         [call EXCEPT !.pc = "sending", !.sent = @ + 1]]
                  /\ UNCHANGED <<events, emitters>>
    /\ UNCHANGED nonStreamVars

\* From the invocation to the suspension at send().await: the client is
\* built, the method is matched, the request goes out.
StreamInvoke(c) ==
    /\ streams[c].pc = "idle"
    /\ \A d \in 1..(c - 1) : streams[d].pc # "idle"
    /\ \E sid \in FreshOrUsedIds(c), m \in StreamMethods, pcfg \in StreamProxies :
         LET client == create_stream_http_client(pcfg)
             call == [streams[c] EXCEPT !.stream_id = sid, !.method = m,
                                        !.proxy_config = pcfg]
         IN  streams' = [streams EXCEPT ![c] =
                 IF ~client.ok
                 THEN [call EXCEPT !.pc = "returned",
                          !.ret = Some(Err(Msg.create_stream_client_failed \o client.val))]
                 ELSE IF ~StreamMethodAllowed(m)
                 THEN [call EXCEPT !.pc = "returned",
                                   !.ret = Some(Err(Msg.unsupported_method))]
                 ELSE [call EXCEPT !.pc = "sending", !.sent = @ + 1]]
    /\ UNCHANGED <<events, emitters>>
    /\ UNCHANGED nonStreamVars

\* the Err(e) arm of send() without its emit
StreamSendFailSilent(c) ==
    /\ streams[c].pc = "sending"
    /\ \E e \in SendErrors :
         streams' = [streams EXCEPT ![c].pc = "returned",
                                    ![c].ret = Some(Err(Msg.stream_request_failed \o e))]
    /\ UNCHANGED <<events, emitters>>
    /\ UNCHANGED nonStreamVars

\* send() fails: no response was obtained
StreamSendFail(c) ==
    /\ streams[c].pc = "sending"
    /\ \E e \in SendErrors :
         LET error_msg == Msg.stream_request_failed \o e
         IN  /\ Emit(c, <<ErrorEvent(streams[c].stream_id, error_msg)>>)
             /\ streams' = [streams EXCEPT ![c].pc = "returned",
                                           ![c].ret = Some(Err(error_msg))]
    /\ UNCHANGED nonStreamVars

\* the call awaits the spawned pump instead of returning
StartPumpAwaited(call) == [call EXCEPT !.pc = "awaiting", !.pump = "running"]

\* the pump is spawned and the acknowledgment returned
StartPump(call) ==
    [call EXCEPT !.pc = "returned", !.pump = "running",
                 !.ret = Some(Ok(Msg.stream_started \o call.stream_id))]

\* the non-2xx arm returning the status alone, not the text it emitted
StreamResponseBareStatus(c) ==
    /\ streams[c].pc = "sending"
    /\ \E status \in StreamStatuses :
         LET call == [streams[c] EXCEPT !.status = Some(status)]
             error_msg == Msg.http_status_error \o ToString(status)
         IN  IF ~IsSuccess(status)
             THEN /\ Emit(c, <<ErrorEvent(call.stream_id, error_msg)>>)
                  /\ streams' = [streams EXCEPT ![c] =
                         [call EXCEPT !.pc = "returned",
                                      !.ret = Some(Err(ToString(status)))]]
             ELSE /\ streams' = [streams EXCEPT ![c] = StartPump(call)]
                  /\ UNCHANGED <<events, emitters>>
    /\ UNCHANGED nonStreamVars

\* send() yields a response
StreamResponse(c) ==
    /\ streams[c].pc = "sending"
    /\ \E status \in StreamStatuses :
         LET call == [streams[c] EXCEPT !.status = Some(status)]
             error_msg == Msg.http_status_error \o ToString(status)
         IN  IF ~IsSuccess(status)
             THEN /\ Emit(c, <<ErrorEvent(call.stream_id, error_msg)>>)
                  /\ streams' = [streams EXCEPT ![c] =
                         [call EXCEPT !.pc = "returned", !.ret = Some(Err(error_msg))]]
             ELSE /\ streams' = [streams EXCEPT ![c] = StartPump(call)]
                  /\ UNCHANGED <<events, emitters>>
    /\ UNCHANGED nonStreamVars

(***************************************************************************)
(* The spawned pump: one action per outcome of stream.next().await.        *)
(***************************************************************************)
ChunkRead(bytes) == [kind |-> "chunk", bytes |-> bytes, detail |-> ""]
ErrRead(e) == [kind |-> "err", bytes |-> <<>>, detail |-> e]
EofRead == [kind |-> "eof", bytes |-> <<>>, detail |-> ""]

\* chunks all bodies have delivered so far
RECURSIVE ChunksReadUpTo(_)
ChunksReadUpTo(c) ==
    IF c = 0 THEN 0
    ELSE Cardinality({i \in 1..Len(streams[c].reads) : streams[c].reads[i].kind = "chunk"})
         + ChunksReadUpTo(c - 1)

\* an undecodable chunk reported as an error event
OnChunkStrict(sid, chunk) ==
    LET text == FromUtf8(chunk)
    IN  IF text # Invalid THEN <<DataEvent(sid, text)>>
        ELSE <<ErrorEvent(sid, Msg.stream_read_failed \o "invalid utf-8")>>

\* the Ok(chunk) arm
OnChunk(sid, chunk) ==
    LET text == FromUtf8(chunk)
    IN  IF text # Invalid THEN <<DataEvent(sid, text)>> ELSE <<>>

\* the Err(e) arm, up to its break
OnReadError(sid, e) == <<ErrorEvent(sid, Msg.stream_read_failed \o e)>>

\* the Err(e) arm without its break
NoBreakOnError == FALSE

\* the Err(e) arm leaves the loop
BreaksOnError == TRUE

\* no end event after the loop
AfterLoopSilent(sid) == <<>>

\* what follows the loop
AfterLoop(sid) == <<EndEvent(sid)>>

PumpChunk(c) ==
    /\ streams[c].pump = "running"
    /\ ChunksReadUpTo(MaxStreams) < MaxChunks
    /\ \E chunk \in Chunks :
         /\ Emit(c, OnChunk(streams[c].stream_id, chunk))
         /\ streams' = [streams EXCEPT ![c].reads = Append(@, ChunkRead(chunk))]
    /\ UNCHANGED nonStreamVars

PumpReadError(c) ==
    /\ streams[c].pump = "running"
    /\ \E e \in ReadErrors :
         LET sid == streams[c].stream_id
         IN  /\ Emit(c, OnReadError(sid, e)
                        \o (IF BreaksOnError THEN AfterLoop(sid) ELSE <<>>))
             /\ streams' = [streams EXCEPT
                    ![c].reads = Append(@, ErrRead(e)),
                    ![c].pump = IF BreaksOnError THEN "finished" ELSE @]
    /\ UNCHANGED nonStreamVars

\* an end event held back when the stream_id already got one
PumpEofOncePerId(c) ==
    /\ streams[c].pump = "running"
    /\ Emit(c, IF \E i \in 1..Len(events) :
                      events[i] = EndEvent(streams[c].stream_id)
                THEN <<>> ELSE AfterLoop(streams[c].stream_id))
    /\ streams' = [streams EXCEPT ![c].reads = Append(@, EofRead),
                                  ![c].pump = "finished"]
    /\ UNCHANGED nonStreamVars

PumpEof(c) ==
    /\ streams[c].pump = "running"
    /\ Emit(c, AfterLoop(streams[c].stream_id))
    /\ streams' = [streams EXCEPT ![c].reads = Append(@, EofRead),
                                  ![c].pump = "finished"]
    /\ UNCHANGED nonStreamVars

(***************************************************************************)
(* send_http_request.                                                      *)
(***************************************************************************)
\* PATCH let through
HttpMethodAllowedPatch(method) ==
    ToUppercase(method) \in {"GET", "POST", "PUT", "DELETE", "PATCH"}

\* the method match of send_http_request
HttpMethodAllowed(method) == ToUppercase(method) \in {"GET", "POST", "PUT", "DELETE"}

\* HeaderValue::to_str: the text of a value of visible ASCII (or tab) bytes
HeaderToStr(value) ==
    IF \A i \in 1..Len(value) : value[i] = 9 \/ (value[i] >= 32 /\ value[i] <= 126)
    THEN Some(value) ELSE None

\* the HashMap the loop over response.headers() fills, as its set of
\* entries: a later value of a name replaces an earlier one, a value that is
\* no text is left out
RECURSIVE CollectHeaders(_)
CollectHeaders(hs) ==
    IF hs = <<>> THEN {}
    ELSE LET front == CollectHeaders(SubSeq(hs, 1, Len(hs) - 1))
             h == hs[Len(hs)]
         IN  IF HeaderToStr(h.value) = None THEN front
             ELSE {x \in front : x.name # h.name}
                  \cup {[name |-> h.name, value |-> HeaderToStr(h.value)[1]]}

\* success reported for a status above 299 too
HttpSuccessInclusive(status) == status >= 200 /\ status <= 300

\* the success field of HttpResponse
HttpSuccess(status) == status >= 200 /\ status < 300

\* From the invocation to the suspension at send().await.
HttpInvoke ==
    /\ http.pc \in {"idle", "done"}
    /\ \E m \in HttpMethods, pcfg \in HttpProxies, hd \in RequestHeaders,
          bd \in RequestBodies :
         LET client == create_http_client(pcfg)
             call == [IdleHttp EXCEPT !.method = m, !.proxy_config = pcfg]
         IN  http' =
                 IF ~client.ok
                 THEN [call EXCEPT !.pc = "done",
                                   !.ret = Some(Err(Msg.create_client_failed \o client.val))]
                 ELSE IF ~HttpMethodAllowed(m)
                 THEN [call EXCEPT !.pc = "done", !.client = Some(client.val),
                                   !.ret = Some(Err(Msg.unsupported_method))]
                 ELSE [call EXCEPT !.pc = "sending", !.client = Some(client.val),
                                   !.request = Some([method |-> ToUppercase(m),
                                                     headers |-> hd, body |-> bd]),
                                   !.sent = @ + 1]
    /\ UNCHANGED nonHttpVars

\* a failed send() tried a second time
HttpSendFailRetry ==
    /\ http.pc = "sending"
    /\ \E e \in SendErrors :
         http' = IF http.sent < 2
                 THEN [http EXCEPT !.sent = @ + 1]
                 ELSE [http EXCEPT !.pc = "done",
                                   !.ret = Some(Err(Msg.http_request_failed \o e))]
    /\ UNCHANGED nonHttpVars

\* send() fails
HttpSendFail ==
    /\ http.pc = "sending"
    /\ \E e \in SendErrors :
         http' = [http EXCEPT !.pc = "done",
                              !.ret = Some(Err(Msg.http_request_failed \o e))]
    /\ UNCHANGED nonHttpVars

\* send() yields a response: status and headers are taken, the call
\* suspends at response.text().await
HttpResponse ==
    /\ http.pc = "sending"
    /\ \E status \in HttpStatuses, n \in 0..MaxHeaders :
         \E hs \in [1..n -> ResponseHeaderPool] :
             http' = [http EXCEPT !.pc = "reading", !.status = Some(status),
                                  !.headers = CollectHeaders(hs)]
    /\ UNCHANGED nonHttpVars

\* the body is read to its end
HttpBodyOk ==
    /\ http.pc = "reading"
    /\ \E body \in ResponseBodies :
         http' = [http EXCEPT
             !.pc = "done",
             !.body_read = Some(Ok(body)),
             !.ret = Some(Ok([status |-> http.status[1],
                              headers |-> http.headers,
                              body |-> body,
                              success |-> HttpSuccess(http.status[1]),
                              error |-> None]))]
    /\ UNCHANGED nonHttpVars

\* a failed body read reported with the text of a failed send
HttpBodyFailAsSendFail ==
    /\ http.pc = "reading"
    /\ \E e \in ReadErrors :
         http' = [http EXCEPT !.pc = "done",
                              !.body_read = Some(Err(e)),
                              !.ret = Some(Err(Msg.http_request_failed \o e))]
    /\ UNCHANGED nonHttpVars

\* reading the body fails
HttpBodyFail ==
    /\ http.pc = "reading"
    /\ \E e \in ReadErrors :
         http' = [http EXCEPT !.pc = "done",
                              !.body_read = Some(Err(e)),
                              !.ret = Some(Err(Msg.read_body_failed \o e))]
    /\ UNCHANGED nonHttpVars

NextHttp ==
    \/ HttpInvoke
    \/ HttpSendFail
    \/ HttpResponse
    \/ HttpBodyOk
    \/ HttpBodyFail

SpecHttp == Init /\ [][NextHttp]_vars

(***************************************************************************)
(* test_proxy_connection.                                                  *)
(***************************************************************************)
TestUrl == "https://www.google.com"

\* Display of StatusCode: the number and its canonical reason
StatusDisplay(status) ==
    ToString(status) \o " " \o
        (CASE status = 200 -> "OK"
           [] status = 300 -> "Multiple Choices"
           [] status = 404 -> "Not Found"
           [] status = 500 -> "Internal Server Error"
           [] OTHER -> "<unknown status code>")

\* From the invocation to the suspension at send().await.
ProbeInvoke ==
    /\ probe.pc \in {"idle", "done"}
    /\ probe.calls < MaxProbeCalls
    /\ \E cfg \in ProbeConfigs :
         LET client == create_http_client(Some(cfg))
             call == [IdleProbe EXCEPT !.proxy_config = Some(cfg),
                                       !.calls = probe.calls + 1]
         IN  probe' =
                 IF ~client.ok
                 THEN [call EXCEPT !.pc = "done",
                          !.ret = Some(Err(Msg.create_proxy_client_failed \o client.val))]
                 ELSE [call EXCEPT !.pc = "sending", !.client = Some(client.val),
                                   !.sent = @ + 1]
    /\ UNCHANGED nonProbeVars

\* send() fails
ProbeSendFail ==
    /\ probe.pc = "sending"
    /\ \E e \in SendErrors :
         probe' = [probe EXCEPT !.pc = "done",
                                !.ret = Some(Err(Msg.proxy_connect_failed \o e))]
    /\ UNCHANGED nonProbeVars

\* a redirect counted as a success
ProbeResponseLenient ==
    /\ probe.pc = "sending"
    /\ \E status \in ProbeStatuses :
         probe' = [probe EXCEPT
             !.pc = "done",
             !.status = Some(status),
             !.ret = IF status >= 200 /\ status < 400
                     THEN Some(Ok(Msg.proxy_test_ok \o ToString(status) \o ")"))
                     ELSE Some(Err(Msg.proxy_test_status \o StatusDisplay(status)))]
    /\ UNCHANGED nonProbeVars

\* the outcome of the probe also sent to the event channel
ProbeResponseEmitting ==
    /\ probe.pc = "sending"
    /\ \E status \in ProbeStatuses :
         /\ probe' = [probe EXCEPT
                !.pc = "done",
                !.status = Some(status),
                !.ret = IF IsSuccess(status)
                        THEN Some(Ok(Msg.proxy_test_ok \o ToString(status) \o ")"))
                        ELSE Some(Err(Msg.proxy_test_status \o StatusDisplay(status)))]
         /\ events' = Append(events, EndEvent("proxy-test"))
         /\ emitters' = Append(emitters, 0)
    /\ UNCHANGED <<streams, http, built, files, fscall, db, storage>>

\* send() yields a response
ProbeResponse ==
    /\ probe.pc = "sending"
    /\ \E status \in ProbeStatuses :
         probe' = [probe EXCEPT
             !.pc = "done",
             !.status = Some(status),
             !.ret = IF IsSuccess(status)
                     THEN Some(Ok(Msg.proxy_test_ok \o ToString(status) \o ")"))
                     ELSE Some(Err(Msg.proxy_test_status \o StatusDisplay(status)))]
    /\ UNCHANGED nonProbeVars

NextProbe ==
    \/ ProbeInvoke
    \/ ProbeSendFail
    \/ ProbeResponse

(***************************************************************************)
(* The three commands that send a request.  A behaviour follows calls of   *)
(* send_http_request, or one send_stream_request call and its pump;        *)
(* test_proxy_connection is called alone, or after and beside the          *)
(* streaming call.                                                         *)
(***************************************************************************)
StreamsPristine ==
    streams = [c \in StreamCalls |-> IdleStream] /\ events = <<>>
HttpPristine == http = IdleHttp
ProbePristine == probe = IdleProbe

NextFirstStream ==
    \/ StreamInvoke(1)
    \/ StreamSendFail(1)
    \/ StreamResponse(1)
    \/ PumpChunk(1)
    \/ PumpReadError(1)
    \/ PumpEof(1)

NextCommands ==
    \/ StreamsPristine /\ ProbePristine /\ NextHttp
    \/ HttpPristine /\ ProbePristine /\ NextFirstStream
    \/ HttpPristine /\ NextProbe

SpecCommands == Init /\ [][NextCommands]_vars

(***************************************************************************)
(* The file-system commands (lib.rs:380-1014), as built for Unix: a path   *)
(* is cut at "/", and a leading "/" is its root.  A file is followed by    *)
(* the length of its content.  Each command is one step: none of them      *)
(* awaits.                                                                 *)
(***************************************************************************)
\* the texts the fs commands put into error and data
FsMsg ==
    [path_unsafe |->
         "<8DEF><5F84><4E0D><5B89><5168><6216><6587><4EF6><7C7B><578B><4E0D><88AB><652F><6301>",
     no_current_dir |-> "<65E0><6CD5><83B7><53D6><5F53><524D><76EE><5F55>: ",
     absolute_not_allowed |-> "<4E0D><5141><8BB8><4F7F><7528><7EDD><5BF9><8DEF><5F84>",
     canon_current_failed |-> "<65E0><6CD5><89C4><8303><5316><5F53><524D><76EE><5F55>: ",
     path_out_of_range |-> "<8DEF><5F84><8D85><51FA><5141><8BB8><8303><56F4>",
     read_failed |-> "<8BFB><53D6><6587><4EF6><5931><8D25>: ",
     content_too_large |-> "<6587><4EF6><5185><5BB9><8FC7><5927><FF0C><8D85><8FC7>10MB<9650><5236>",
     create_parent_failed |-> "<521B><5EFA><7236><76EE><5F55><5931><8D25>: ",
     write_failed |-> "<5199><5165><6587><4EF6><5931><8D25>: ",
     written |-> "<6587><4EF6><5DF2><5199><5165>: ",
     chars |-> " <5B57><7B26>)",
     list_failed |-> "<5217><51FA><76EE><5F55><5931><8D25>: ",
     dir_created |-> "<76EE><5F55><5DF2><521B><5EFA>: ",
     create_dir_failed |-> "<521B><5EFA><76EE><5F55><5931><8D25>: ",
     not_a_file |-> "<6307><5B9A><8DEF><5F84><4E0D><662F><6587><4EF6>",
     file_deleted |-> "<6587><4EF6><5DF2><5220><9664>: ",
     delete_file_failed |-> "<5220><9664><6587><4EF6><5931><8D25>: ",
     not_a_directory |-> "<6307><5B9A><8DEF><5F84><4E0D><662F><76EE><5F55>",
     dir_deleted |-> "<76EE><5F55><5DF2><5220><9664>: ",
     delete_dir_failed |-> "<5220><9664><76EE><5F55><5931><8D25>: ",
     source_invalid |-> "<6E90><8DEF><5F84><9A8C><8BC1><5931><8D25>: ",
     target_invalid |-> "<76EE><6807><8DEF><5F84><9A8C><8BC1><5931><8D25>: ",
     moved |-> "<5DF2><79FB><52A8>: ",
     move_failed |-> "<79FB><52A8><5931><8D25>: ",
     source_not_file |-> "<6E90><8DEF><5F84><4E0D><662F><6587><4EF6>",
     create_target_dir_failed |-> "<521B><5EFA><76EE><6807><76EE><5F55><5931><8D25>: ",
     copied |-> "<6587><4EF6><5DF2><590D><5236>: ",
     copy_failed |-> "<590D><5236><6587><4EF6><5931><8D25>: ",
     info_failed |-> "<83B7><53D6><4FE1><606F><5931><8D25>: ",
     regex_error |-> "<6B63><5219><8868><8FBE><5F0F><9519><8BEF>: "]

\* io::Error, as Display writes it into the messages
Errno ==
    [ENOENT |-> "No such file or directory (os error 2)",
     EACCES |-> "Permission denied (os error 13)",
     EBUSY |-> "Device or resource busy (os error 16)",
     EEXIST |-> "File exists (os error 17)",
     ENOTDIR |-> "Not a directory (os error 20)",
     EISDIR |-> "Is a directory (os error 21)",
     EINVAL |-> "Invalid argument (os error 22)",
     ENOTEMPTY |-> "Directory not empty (os error 39)"]

\* str::to_lowercase on the texts the model draws
ToLowercase(s) ==
    CASE s = "EXE" -> "exe"
      [] s = "TXT" -> "txt"
      [] s = "A.TXT" -> "a.txt"
      [] OTHER -> s

\* the place of the last "." of s, 0 when it has none
LastDot(s) ==
    IF \E i \in 1..Len(s) : SubSeq(s, i, i) = "."
    THEN CHOOSE i \in 1..Len(s) :
             /\ SubSeq(s, i, i) = "."
             /\ \A j \in (i + 1)..Len(s) : SubSeq(s, j, j) # "."
    ELSE 0

\* the pieces of s between its "/"
RECURSIVE Split(_)
Split(s) ==
    IF \A i \in 1..Len(s) : SubSeq(s, i, i) # "/" THEN <<s>>
    ELSE LET i == CHOOSE i \in 1..Len(s) :
                      /\ SubSeq(s, i, i) = "/"
                      /\ \A j \in 1..(i - 1) : SubSeq(s, j, j) # "/"
         IN  <<SubSeq(s, 1, i - 1)>> \o Split(SubSeq(s, i + 1, Len(s)))

\* the pieces joined again with "/"
RECURSIVE Join(_)
Join(names) ==
    IF Len(names) = 0 THEN ""
    ELSE IF Len(names) = 1 THEN names[1]
    ELSE names[1] \o "/" \o Join(Tail(names))

\* the components after the first: empty pieces and "." are dropped
RECURSIVE InnerComponents(_)
InnerComponents(pieces) ==
    IF pieces = <<>> THEN <<>>
    ELSE LET piece == Head(pieces)
             rest == InnerComponents(Tail(pieces))
         IN  IF piece = "" \/ piece = "." THEN rest
             ELSE IF piece = ".." THEN <<[kind |-> "ParentDir", name |-> piece]>> \o rest
             ELSE <<[kind |-> "Normal", name |-> piece]>> \o rest

\* Path::has_root
HasRoot(path) == Len(path) > 0 /\ SubSeq(path, 1, 1) = "/"

\* Path::components
Components(path) ==
    LET pieces == Split(path)
    IN  IF path = "" THEN <<>>
        ELSE IF HasRoot(path)
             THEN <<[kind |-> "RootDir", name |-> "/"]>> \o InnerComponents(pieces)
        ELSE IF Head(pieces) = "."
             THEN <<[kind |-> "CurDir", name |-> "."]>> \o InnerComponents(Tail(pieces))
        ELSE InnerComponents(pieces)

\* Path::file_name
FileName(path) ==
    LET components == Components(path)
    IN  IF components = <<>> THEN None
        ELSE IF components[Len(components)].kind = "Normal"
             THEN Some(components[Len(components)].name)
        ELSE None

\* Path::extension: what follows the last "." of the file name, unless the
\* name has none or only the one it begins with
Extension(path) ==
    LET file_name == FileName(path)
    IN  IF file_name = None THEN None
        ELSE LET i == LastDot(file_name[1])
             IN  IF i <= 1 THEN None
                 ELSE Some(SubSeq(file_name[1], i + 1, Len(file_name[1])))

\* Path::is_absolute
IsAbsolute(path) == HasRoot(path)

allowed_extensions ==
    {"txt", "md", "json", "js", "ts", "jsx", "tsx",
     "css", "scss", "html", "xml", "yaml", "yml",
     "py", "java", "cpp", "c", "h", "cs", "php",
     "rb", "go", "rs", "swift", "kt", "scala",
     "sql", "sh", "bat", "ps1", "dockerfile",
     "gitignore", "env", "config", "ini", "toml"}

\* the check of the extension alone
ExtensionAllowed(path) ==
    LET extension == Extension(path)
    IN  extension # None =>
            LET ext == ToLowercase(extension[1])
            IN  ~(ext \notin allowed_extensions /\ ext # "")

\* a check that looks for ".." and "/" in the first component only
is_path_safe_first_only(path) ==
    LET components == Components(path)
    IN  /\ components # <<>> => components[1].kind \notin {"ParentDir", "RootDir"}
        /\ ExtensionAllowed(path)

is_path_safe(path) ==
    LET components == Components(path)
    IN  /\ \A i \in 1..Len(components) :
               components[i].kind \notin {"ParentDir", "RootDir"}
        /\ ExtensionAllowed(path)

\* the working directory, and the directory above it
Root == "."
Outside == ".."

\* current_dir.join(path), named from the working directory
NodeOf(path) ==
    LET components == Components(path)
        normal == SelectSeq(components, LAMBDA c : c.kind = "Normal")
    IN  IF normal = <<>> THEN Root
        ELSE Join([i \in 1..Len(normal) |-> normal[i].name])

\* Path::parent
ParentOf(node) ==
    IF node = Root THEN Outside
    ELSE LET pieces == Split(node)
         IN  IF Len(pieces) = 1 THEN Root
             ELSE Join(SubSeq(pieces, 1, Len(pieces) - 1))

\* the last piece of a node's name
NameOf(node) == LET pieces == Split(node) IN pieces[Len(pieces)]

\* node lies below dir
Under(node, dir) ==
    /\ node # dir
    /\ node # Outside
    /\ \/ dir = Root
       \/ StripPrefix(node, dir \o "/") # None

\* what lies at a node: nothing, a directory, or a file of len bytes
Entry(kind, len) == [kind |-> kind, len |-> len]

\* what lies at a node; what the model does not follow counts as absent
Kind(f, node) ==
    IF node = Outside THEN "dir"
    ELSE IF node \notin FsNodes THEN "absent"
    ELSE f[node].kind

\* f with v at node
Put(f, node, v) == [m \in FsNodes |-> IF m = node THEN v ELSE f[m]]

\* the entries of a directory
Children(f, dir) == {m \in FsNodes : ParentOf(m) = dir /\ Kind(f, m) # "absent"}

FsOut(res, f) == [res |-> res, files |-> f]

\* Path::is_file, Path::is_dir
IsFile(f, node) == Kind(f, node) = "file"
IsDir(f, node) == Kind(f, node) = "dir"

\* Path::canonicalize: fails on what does not exist; link_out says a
\* symbolic link on the way leads out of the working directory
Canonicalize(f, node, link_out) ==
    IF Kind(f, node) = "absent" THEN Err(Errno.ENOENT)
    ELSE Ok(IF link_out THEN "outside" ELSE "inside")

\* fs::read_to_string; io is FALSE when the system denies the access
ReadToString(f, node, io) ==
    IF Kind(f, node) = "absent" THEN Err(Errno.ENOENT)
    ELSE IF Kind(f, node) = "dir" THEN Err(Errno.EISDIR)
    ELSE IF ~io THEN Err(Errno.EACCES)
    ELSE Ok(f[node].len)

\* mkdir(2)
Mkdir(f, node, io) ==
    IF Kind(f, node) # "absent" THEN FsOut(Err(Errno.EEXIST), f)
    ELSE IF Kind(f, ParentOf(node)) = "absent" THEN FsOut(Err(Errno.ENOENT), f)
    ELSE IF Kind(f, ParentOf(node)) = "file" THEN FsOut(Err(Errno.ENOTDIR), f)
    ELSE IF ~io THEN FsOut(Err(Errno.EACCES), f)
    ELSE FsOut(Ok(TRUE), Put(f, node, Entry("dir", 0)))

\* fs::create_dir_all
RECURSIVE CreateDirAll(_, _, _)
CreateDirAll(f, node, io) ==
    LET first == Mkdir(f, node, io)
    IN  IF first.res.ok THEN first
        ELSE IF first.res.val # Errno.ENOENT
             THEN IF IsDir(f, node) THEN FsOut(Ok(TRUE), f) ELSE first
        ELSE LET up == CreateDirAll(f, ParentOf(node), io)
             IN  IF ~up.res.ok THEN up
                 ELSE LET second == Mkdir(up.files, node, io)
                      IN  IF second.res.ok THEN second
                          ELSE IF IsDir(up.files, node) THEN FsOut(Ok(TRUE), up.files)
                          ELSE FsOut(second.res, up.files)

\* fs::write
Write(f, node, len, io) ==
    IF Kind(f, node) = "dir" THEN FsOut(Err(Errno.EISDIR), f)
    ELSE IF Kind(f, ParentOf(node)) = "absent" THEN FsOut(Err(Errno.ENOENT), f)
    ELSE IF Kind(f, ParentOf(node)) = "file" THEN FsOut(Err(Errno.ENOTDIR), f)
    ELSE IF ~io THEN FsOut(Err(Errno.EACCES), f)
    ELSE FsOut(Ok(TRUE), Put(f, node, Entry("file", len)))

\* fs::read_dir
ReadDir(f, node, io) ==
    IF Kind(f, node) = "absent" THEN Err(Errno.ENOENT)
    ELSE IF Kind(f, node) = "file" THEN Err(Errno.ENOTDIR)
    ELSE IF ~io THEN Err(Errno.EACCES)
    ELSE Ok(Children(f, node))

\* fs::remove_file
RemoveFile(f, node, io) ==
    IF Kind(f, node) = "absent" THEN FsOut(Err(Errno.ENOENT), f)
    ELSE IF Kind(f, node) = "dir" THEN FsOut(Err(Errno.EISDIR), f)
    ELSE IF ~io THEN FsOut(Err(Errno.EACCES), f)
    ELSE FsOut(Ok(TRUE), Put(f, node, Entry("absent", 0)))

\* fs::remove_dir_all: the directory and all below it
RemoveDirAll(f, node, io) ==
    IF Kind(f, node) = "absent" THEN FsOut(Err(Errno.ENOENT), f)
    ELSE IF Kind(f, node) = "file" THEN FsOut(Err(Errno.ENOTDIR), f)
    ELSE IF ~io THEN FsOut(Err(Errno.EACCES), f)
    ELSE FsOut(Ok(TRUE),
               [m \in FsNodes |-> IF m = node \/ Under(m, node) THEN Entry("absent", 0) ELSE f[m]])

\* the name under target of what lay under source
MovedName(m, source, target) == target \o SubSeq(m, Len(source) + 1, Len(m))

\* fs::rename (rename(2))
Rename(f, source, target, io) ==
    IF Kind(f, source) = "absent" THEN FsOut(Err(Errno.ENOENT), f)
    ELSE IF Kind(f, ParentOf(target)) = "absent" THEN FsOut(Err(Errno.ENOENT), f)
    ELSE IF Kind(f, ParentOf(target)) = "file" THEN FsOut(Err(Errno.ENOTDIR), f)
    ELSE IF source = Root \/ target = Root THEN FsOut(Err(Errno.EBUSY), f)
    ELSE IF source = target THEN FsOut(Ok(TRUE), f)
    ELSE IF Under(target, source) THEN FsOut(Err(Errno.EINVAL), f)
    ELSE IF IsFile(f, source) /\ IsDir(f, target) THEN FsOut(Err(Errno.EISDIR), f)
    ELSE IF IsDir(f, source) /\ IsFile(f, target) THEN FsOut(Err(Errno.ENOTDIR), f)
    ELSE IF IsDir(f, source) /\ IsDir(f, target) /\ Children(f, target) # {}
         THEN FsOut(Err(Errno.ENOTEMPTY), f)
    ELSE IF ~io THEN FsOut(Err(Errno.EACCES), f)
    ELSE FsOut(Ok(TRUE),
               [m \in FsNodes |->
                   IF m = target THEN f[source]
                   ELSE IF \E s \in FsNodes : Under(s, source) /\ MovedName(s, source, target) = m
                        THEN f[CHOOSE s \in FsNodes :
                                   Under(s, source) /\ MovedName(s, source, target) = m]
                   ELSE IF m = source \/ Under(m, source) \/ Under(m, target) THEN Entry("absent", 0)
                   ELSE f[m]])

\* all that moves with source has a name the model follows
RenameTracked(f, source, target) ==
    (source # Root /\ target # Root /\ source # target /\ ~Under(target, source)) =>
        \A m \in FsNodes :
            (Under(m, source) /\ Kind(f, m) # "absent") =>
                MovedName(m, source, target) \in FsNodes

\* fs::copy: the target is opened truncating before the source is read, so
\* a file copied onto itself ends up empty
Copy(f, source, target, io) ==
    IF Kind(f, source) = "absent" THEN FsOut(Err(Errno.ENOENT), f)
    ELSE IF Kind(f, source) = "dir" THEN FsOut(Err(Errno.EINVAL), f)
    ELSE IF Kind(f, target) = "dir" THEN FsOut(Err(Errno.EISDIR), f)
    ELSE IF Kind(f, ParentOf(target)) = "absent" THEN FsOut(Err(Errno.ENOENT), f)
    ELSE IF Kind(f, ParentOf(target)) = "file" THEN FsOut(Err(Errno.ENOTDIR), f)
    ELSE IF ~io THEN FsOut(Err(Errno.EACCES), f)
    ELSE IF source = target THEN FsOut(Ok(0), Put(f, target, Entry("file", 0)))
    ELSE FsOut(Ok(f[source].len), Put(f, target, Entry("file", f[source].len)))

\* fs::metadata
Metadata(f, node, io) ==
    IF Kind(f, node) = "absent" THEN Err(Errno.ENOENT)
    ELSE IF ~io THEN Err(Errno.EACCES)
    ELSE Ok(f[node])

\* the result of get_safe_path with the calls it made on the way, each with
\* the path it was made for
SafePathOut(res, lookups) == [res |-> res, lookups |-> lookups]

get_safe_path(f, path, link_out) ==
    IF ~is_path_safe(path) THEN SafePathOut(Err(FsMsg.path_unsafe), <<>>)
    ELSE IF Kind(f, Root) = "absent"
         THEN SafePathOut(Err(FsMsg.no_current_dir \o Errno.ENOENT), <<<<"current_dir", path>>>>)
    ELSE IF IsAbsolute(path)
         THEN SafePathOut(Err(FsMsg.absolute_not_allowed), <<<<"current_dir", path>>>>)
    ELSE LET full_path == NodeOf(path)
             canonical_current == Canonicalize(f, Root, FALSE)
             canonical_path == Canonicalize(f, full_path, link_out)
         IN  IF ~canonical_current.ok
             THEN SafePathOut(Err(FsMsg.canon_current_failed \o canonical_current.val),
                              <<<<"current_dir", path>>, <<"canonicalize_current", path>>>>)
             ELSE IF canonical_path.ok /\ canonical_path.val # "inside"
                  THEN SafePathOut(Err(FsMsg.path_out_of_range),
                                   <<<<"current_dir", path>>, <<"canonicalize_current", path>>,
                                     <<"canonicalize", path>>>>)
             ELSE SafePathOut(Ok(full_path),
                              <<<<"current_dir", path>>, <<"canonicalize_current", path>>,
                                <<"canonicalize", path>>>>)

\* what FileSystemResult.data holds: a message, a file's content (its
\* length), the paths of a search, or the entries of a listing; the arrays
\* serde_json writes are taken up to their order
Data(text, content, paths, items) ==
    [text |-> text, content |-> content, paths |-> paths, items |-> items]

\* FileSystemResult, as the commands return it
Failure(error) == Ok([success |-> FALSE, data |-> None, error |-> Some(error)])
Success(data) == Ok([success |-> TRUE, data |-> Some(data), error |-> None])

\* what a command leaves behind: the files, the calls get_safe_path made,
\* the std::fs calls of the command itself, and the value it returns
CallOut(f, lookups, ops, ret) ==
    [files |-> f, lookups |-> lookups, ops |-> ops, ret |-> ret]

fs_read_file(f, path, safe_path, io) ==
    IF ~safe_path.res.ok
        THEN CallOut(f, safe_path.lookups, <<>>, Failure(safe_path.res.val))
        ELSE LET node == safe_path.res.val
                 content == ReadToString(f, node, io)
                 ops == <<<<"read_to_string", node>>>>
             IN  IF content.ok
                 THEN CallOut(f, safe_path.lookups, ops, Success(Data("", Some(content.val), {}, {})))
                 ELSE CallOut(f, safe_path.lookups, ops,
                              Failure(FsMsg.read_failed \o content.val))

fs_write_file(f, path, len, safe_path, io) ==
    IF len > MaxContentLen
    THEN CallOut(f, <<>>, <<>>, Failure(FsMsg.content_too_large))
    ELSE IF ~safe_path.res.ok
             THEN CallOut(f, safe_path.lookups, <<>>, Failure(safe_path.res.val))
             ELSE LET node == safe_path.res.val
                      parent == CreateDirAll(f, ParentOf(node), io)
                      written == Write(parent.files, node, len, io)
                 IN  IF ~parent.res.ok
                     THEN CallOut(parent.files, safe_path.lookups,
                                  <<<<"create_dir_all", ParentOf(node)>>>>,
                                  Failure(FsMsg.create_parent_failed \o parent.res.val))
                     ELSE IF written.res.ok
                     THEN CallOut(written.files, safe_path.lookups,
                                  <<<<"create_dir_all", ParentOf(node)>>, <<"write", node>>>>,
                                  Success(Data(FsMsg.written \o path \o " ("
                                                   \o ToString(len) \o FsMsg.chars,
                                               None, {}, {})))
                     ELSE CallOut(written.files, safe_path.lookups,
                                  <<<<"create_dir_all", ParentOf(node)>>, <<"write", node>>>>,
                                  Failure(FsMsg.write_failed \o written.res.val))

\* DirectoryItem, without its time stamp
DirectoryItem(f, node) ==
    [name |-> NameOf(node),
     item_type |-> IF IsDir(f, node) THEN "directory" ELSE "file",
     size |-> IF IsFile(f, node) THEN Some(f[node].len) ELSE None]

fs_list_directory(f, path, safe_path, io) ==
    IF ~safe_path.res.ok
        THEN CallOut(f, safe_path.lookups, <<>>, Failure(safe_path.res.val))
        ELSE LET node == safe_path.res.val
                 entries == ReadDir(f, node, io)
                 ops == <<<<"read_dir", node>>>>
             IN  IF entries.ok
                 THEN CallOut(f, safe_path.lookups, ops,
                              Success(Data("", None, {}, {DirectoryItem(f, m) : m \in entries.val})))
                 ELSE CallOut(f, safe_path.lookups, ops,
                              Failure(FsMsg.list_failed \o entries.val))

fs_create_directory(f, path, safe_path, io) ==
    IF ~safe_path.res.ok
        THEN CallOut(f, safe_path.lookups, <<>>, Failure(safe_path.res.val))
        ELSE LET node == safe_path.res.val
                 made == CreateDirAll(f, node, io)
                 ops == <<<<"create_dir_all", node>>>>
             IN  IF made.res.ok
                 THEN CallOut(made.files, safe_path.lookups, ops,
                              Success(Data(FsMsg.dir_created \o path, None, {}, {})))
                 ELSE CallOut(made.files, safe_path.lookups, ops,
                              Failure(FsMsg.create_dir_failed \o made.res.val))

fs_delete_file(f, path, safe_path, io) ==
    IF ~safe_path.res.ok
        THEN CallOut(f, safe_path.lookups, <<>>, Failure(safe_path.res.val))
        ELSE LET node == safe_path.res.val
                 removed == RemoveFile(f, node, io)
             IN  IF ~IsFile(f, node)
                 THEN CallOut(f, safe_path.lookups, <<<<"is_file", node>>>>,
                              Failure(FsMsg.not_a_file))
                 ELSE IF removed.res.ok
                 THEN CallOut(removed.files, safe_path.lookups,
                              <<<<"is_file", node>>, <<"remove_file", node>>>>,
                              Success(Data(FsMsg.file_deleted \o path, None, {}, {})))
                 ELSE CallOut(removed.files, safe_path.lookups,
                              <<<<"is_file", node>>, <<"remove_file", node>>>>,
                              Failure(FsMsg.delete_file_failed \o removed.res.val))

fs_delete_directory(f, path, safe_path, io) ==
    IF ~safe_path.res.ok
        THEN CallOut(f, safe_path.lookups, <<>>, Failure(safe_path.res.val))
        ELSE LET node == safe_path.res.val
                 removed == RemoveDirAll(f, node, io)
             IN  IF ~IsDir(f, node)
                 THEN CallOut(f, safe_path.lookups, <<<<"is_dir", node>>>>,
                              Failure(FsMsg.not_a_directory))
                 ELSE IF removed.res.ok
                 THEN CallOut(removed.files, safe_path.lookups,
                              <<<<"is_dir", node>>, <<"remove_dir_all", node>>>>,
                              Success(Data(FsMsg.dir_deleted \o path, None, {}, {})))
                 ELSE CallOut(removed.files, safe_path.lookups,
                              <<<<"is_dir", node>>, <<"remove_dir_all", node>>>>,
                              Failure(FsMsg.delete_dir_failed \o removed.res.val))

fs_move_item(f, source, target, source_path, target_path, io) ==
    IF ~source_path.res.ok
        THEN CallOut(f, source_path.lookups, <<>>,
                     Failure(FsMsg.source_invalid \o source_path.res.val))
        ELSE IF ~target_path.res.ok
        THEN CallOut(f, source_path.lookups \o target_path.lookups, <<>>,
                     Failure(FsMsg.target_invalid \o target_path.res.val))
        ELSE LET lookups == source_path.lookups \o target_path.lookups
                 moved == Rename(f, source_path.res.val, target_path.res.val, io)
                 ops == <<<<"rename", source_path.res.val, target_path.res.val>>>>
             IN  IF moved.res.ok
                 THEN CallOut(moved.files, lookups, ops,
                              Success(Data(FsMsg.moved \o source \o " -> " \o target, None, {}, {})))
                 ELSE CallOut(moved.files, lookups, ops,
                              Failure(FsMsg.move_failed \o moved.res.val))

fs_copy_file(f, source, target, source_path, target_path, io) ==
    IF ~source_path.res.ok
        THEN CallOut(f, source_path.lookups, <<>>,
                     Failure(FsMsg.source_invalid \o source_path.res.val))
        ELSE IF ~target_path.res.ok
        THEN CallOut(f, source_path.lookups \o target_path.lookups, <<>>,
                     Failure(FsMsg.target_invalid \o target_path.res.val))
        ELSE LET lookups == source_path.lookups \o target_path.lookups
                 from == source_path.res.val
                 to == target_path.res.val
                 parent == CreateDirAll(f, ParentOf(to), io)
                 copied == Copy(parent.files, from, to, io)
             IN  IF ~IsFile(f, from)
                 THEN CallOut(f, lookups, <<<<"is_file", from>>>>,
                              Failure(FsMsg.source_not_file))
                 ELSE IF ~parent.res.ok
                 THEN CallOut(parent.files, lookups,
                              <<<<"is_file", from>>, <<"create_dir_all", ParentOf(to)>>>>,
                              Failure(FsMsg.create_target_dir_failed \o parent.res.val))
                 ELSE IF copied.res.ok
                 THEN CallOut(copied.files, lookups,
                              <<<<"is_file", from>>, <<"create_dir_all", ParentOf(to)>>,
                                <<"copy", from, to>>>>,
                              Success(Data(FsMsg.copied \o source \o " -> " \o target, None, {}, {})))
                 ELSE CallOut(copied.files, lookups,
                              <<<<"is_file", from>>, <<"create_dir_all", ParentOf(to)>>,
                                <<"copy", from, to>>>>,
                              Failure(FsMsg.copy_failed \o copied.res.val))

\* FileInfo, without its time stamps and permissions
FileInfo(f, node, metadata) ==
    [name |-> IF node = Root THEN "" ELSE NameOf(node),
     item_type |-> IF metadata.kind = "dir" THEN "directory" ELSE "file",
     size |-> IF metadata.kind = "file" THEN Some(metadata.len) ELSE None]

fs_get_item_info(f, path, safe_path, io) ==
    IF ~safe_path.res.ok
        THEN CallOut(f, safe_path.lookups, <<>>, Failure(safe_path.res.val))
        ELSE LET node == safe_path.res.val
                 metadata == Metadata(f, node, io)
                 ops == <<<<"metadata", node>>>>
             IN  IF metadata.ok
                 THEN CallOut(f, safe_path.lookups, ops,
                              Success(Data("", None, {}, {FileInfo(f, node, metadata.val)})))
                 ELSE CallOut(f, safe_path.lookups, ops,
                              Failure(FsMsg.info_failed \o metadata.val))

\* Regex::new on the patterns the model draws: "(" does not compile
RegexNew(pattern) ==
    IF pattern = "(" THEN Err("regex parse error: unclosed group")
    ELSE Ok(pattern)

\* Regex::is_match for a pattern of plain letters, (?i) folding the case
IsMatch(regex, name, case_sensitive) ==
    IF case_sensitive THEN Contains(name, regex)
    ELSE Contains(ToLowercase(name), ToLowercase(regex))

\* search_dir: the matches below dir, each as its path from the working
\* directory; a directory that cannot be read gives none
RECURSIVE search_dir(_, _, _, _, _, _, _)
search_dir(f, dir, regex, case_sensitive, recursive, file_only, io) ==
    LET entries == ReadDir(f, dir, io)
    IN  IF ~entries.ok THEN {}
        ELSE UNION {
            IF IsFile(f, m) /\ IsMatch(regex, NameOf(m), case_sensitive) THEN {m}
            ELSE IF IsDir(f, m)
                 THEN (IF ~file_only /\ IsMatch(regex, NameOf(m), case_sensitive)
                       THEN {m} ELSE {})
                      \cup (IF recursive
                            THEN search_dir(f, m, regex, case_sensitive, recursive,
                                            file_only, io)
                            ELSE {})
            ELSE {} : m \in entries.val}

fs_search_files(f, path, pattern, options, safe_path, io) ==
    LET recursive == IF options.recursive = None THEN TRUE ELSE options.recursive[1]
        case_sensitive ==
            IF options.case_sensitive = None THEN FALSE ELSE options.case_sensitive[1]
        file_only == IF options.file_only = None THEN TRUE ELSE options.file_only[1]
    IN  IF ~safe_path.res.ok
        THEN CallOut(f, safe_path.lookups, <<>>, Failure(safe_path.res.val))
        ELSE LET node == safe_path.res.val
                 regex == RegexNew(pattern)
             IN  IF ~regex.ok
                 THEN CallOut(f, safe_path.lookups, <<>>,
                              Failure(FsMsg.regex_error \o regex.val))
                 ELSE IF Kind(f, Root) = "absent"
                 THEN CallOut(f, safe_path.lookups, <<<<"current_dir", Root>>>>,
                              Err(FsMsg.no_current_dir \o Errno.ENOENT))
                 ELSE CallOut(f, safe_path.lookups,
                              <<<<"current_dir", Root>>, <<"search_dir", node>>>>,
                              Success(Data("", None, search_dir(f, node, regex.val, case_sensitive,
                                                           recursive, file_only, io), {})))

\* one fs command made, from invocation to return
FsStep(cmd, args, out) ==
    /\ fscall.calls < MaxFsCalls
    /\ files' = out.files
    /\ fscall' = [cmd |-> cmd, args |-> args, lookups |-> out.lookups,
                  ops |-> out.ops, ret |-> Some(out.ret), calls |-> fscall.calls + 1]
    /\ UNCHANGED nonFsVars

\* in each command safe_path stands for what its call of get_safe_path gave
FsReadFile ==
    \E path \in FsPaths, env \in FsEnvs :
        \E safe_path \in {get_safe_path(files, path, env.link_out)} :
            FsStep("fs_read_file", <<path>>, fs_read_file(files, path, safe_path, env.io))

FsWriteFile ==
    \E path \in FsPaths, len \in ContentLens, env \in FsEnvs :
        \E safe_path \in {get_safe_path(files, path, env.link_out)} :
            FsStep("fs_write_file", <<path>>,
                   fs_write_file(files, path, len, safe_path, env.io))

FsListDirectory ==
    \E path \in FsPaths, env \in FsEnvs :
        \E safe_path \in {get_safe_path(files, path, env.link_out)} :
            FsStep("fs_list_directory", <<path>>,
                   fs_list_directory(files, path, safe_path, env.io))

FsCreateDirectory ==
    \E path \in FsPaths, env \in FsEnvs :
        \E safe_path \in {get_safe_path(files, path, env.link_out)} :
            FsStep("fs_create_directory", <<path>>,
                   fs_create_directory(files, path, safe_path, env.io))

FsDeleteFile ==
    \E path \in FsPaths, env \in FsEnvs :
        \E safe_path \in {get_safe_path(files, path, env.link_out)} :
            FsStep("fs_delete_file", <<path>>,
                   fs_delete_file(files, path, safe_path, env.io))

FsDeleteDirectory ==
    \E path \in FsPaths, env \in FsEnvs :
        \E safe_path \in {get_safe_path(files, path, env.link_out)} :
            FsStep("fs_delete_directory", <<path>>,
                   fs_delete_directory(files, path, safe_path, env.io))

FsMoveItem ==
    \E source \in FsPaths, target \in FsPaths, env \in FsEnvs :
        \E source_path \in {get_safe_path(files, source, env.link_out)},
           target_path \in {get_safe_path(files, target, FALSE)} :
            /\ (source_path.res.ok /\ target_path.res.ok) =>
                   RenameTracked(files, source_path.res.val, target_path.res.val)
            /\ FsStep("fs_move_item", <<source, target>>,
                      fs_move_item(files, source, target, source_path, target_path, env.io))

FsCopyFile ==
    \E source \in FsPaths, target \in FsPaths, env \in FsEnvs :
        \E source_path \in {get_safe_path(files, source, env.link_out)},
           target_path \in {get_safe_path(files, target, FALSE)} :
            FsStep("fs_copy_file", <<source, target>>,
                   fs_copy_file(files, source, target, source_path, target_path, env.io))

FsGetItemInfo ==
    \E path \in FsPaths, env \in FsEnvs :
        \E safe_path \in {get_safe_path(files, path, env.link_out)} :
            FsStep("fs_get_item_info", <<path>>,
                   fs_get_item_info(files, path, safe_path, env.io))

FsSearchFiles ==
    \E path \in FsPaths, search \in FsSearches, env \in FsEnvs :
        \E safe_path \in {get_safe_path(files, path, env.link_out)} :
            FsStep("fs_search_files", <<path>>,
                   fs_search_files(files, path, search.pattern, search.options,
                                   safe_path, env.io))

NextFs ==
    \/ FsReadFile
    \/ FsWriteFile
    \/ FsListDirectory
    \/ FsCreateDirectory
    \/ FsDeleteFile
    \/ FsDeleteDirectory
    \/ FsMoveItem
    \/ FsCopyFile
    \/ FsGetItemInfo
    \/ FsSearchFiles

SpecFs == Init /\ [][NextFs]_vars

(***************************************************************************)
(* The storage service (storage_service.rs).                               *)
(***************************************************************************)
\* what sqlx reports when a statement cannot be run, and when it breaks a
\* FOREIGN KEY clause
SqlErr == [io |-> "disk I/O error", foreign_key |-> "FOREIGN KEY constraint failed"]

\* the keys the calls of the model use in table t
Ids(t) ==
    CASE t = "agents" -> {"a1", "a2"}
      [] t = "agent_sessions" -> {"main_chat", "s1"}
      [] t = "messages" -> {"m1", "m2"}
      [] t = "scenes" -> {"sc1", "sc2"}
      [] t = "scene_sessions" -> {"ss1", "ss2"}
      [] t = "scene_messages" -> {"sm1", "sm2"}
      [] OTHER -> {"id1", "id2"}

\* the records the save calls of table t are given
EntityRows(t) ==
    {[id |-> id, parent |-> parent, data |-> data] :
        id \in Ids(t),
        parent \in (IF ParentTable(t) = "" THEN {""} ELSE Ids(ParentTable(t))),
        data \in {"v1", "v2"}}

\* the message lists save_chat_history is given: none, one, two, two with
\* one id, one of another session, and one with the id of another session's
MessageLists ==
    {<<>>,
     <<[id |-> "m1", parent |-> "main_chat", data |-> "v2"]>>,
     <<[id |-> "m1", parent |-> "main_chat", data |-> "v1"],
       [id |-> "m3", parent |-> "main_chat", data |-> "v1"]>>,
     <<[id |-> "m1", parent |-> "main_chat", data |-> "v1"],
       [id |-> "m1", parent |-> "main_chat", data |-> "v2"]>>,
     <<[id |-> "m1", parent |-> "main_chat", data |-> "v1"],
       [id |-> "m3", parent |-> "s1", data |-> "v1"]>>,
     <<[id |-> "m2", parent |-> "main_chat", data |-> "v2"]>>}

\* the settings save_proxy_settings is given
ProxySettingsInputs ==
    {[enabled |-> FALSE, host |-> ""], [enabled |-> TRUE, host |-> "proxy.local"]}

\* DELETE of the rows gone from table t; with foreign keys enforced, ON
\* DELETE CASCADE removes the rows of the referring table that hold their
\* keys, and so on down
RECURSIVE Delete(_, _, _)
Delete(d, t, gone) ==
    LET left == [d EXCEPT !.rows[t] = @ \ gone]
        referring == {c \in Tables : ParentTable(c) = t}
    IN  IF gone = {} \/ ~d.foreign_keys \/ referring = {} THEN left
        ELSE LET c == CHOOSE c \in referring : TRUE
             IN  Delete(left, c, {r \in d.rows[c] : r.parent \in {g.id : g \in gone}})

\* INSERT with rows of the same key left in place
InsertBeside(d, t, row, io) ==
    IF ~io THEN [res |-> Err(SqlErr.io), db |-> d]
    ELSE [res |-> Ok(TRUE), db |-> [d EXCEPT !.rows[t] = @ \cup {row}]]

\* INSERT OR REPLACE INTO t: the row of the same key is deleted, with what
\* its deletion cascades to, the new row is inserted, and the statement is
\* undone when the new row refers to no row of the parent table
InsertOrReplace(d, t, row, io) ==
    LET cleared == Delete(d, t, {r \in d.rows[t] : r.id = row.id})
        inserted == [cleared EXCEPT !.rows[t] = @ \cup {row}]
    IN  IF ~io THEN [res |-> Err(SqlErr.io), db |-> d]
        ELSE IF /\ d.foreign_keys
                /\ ParentTable(t) # ""
                /\ \A p \in inserted.rows[ParentTable(t)] : p.id # row.parent
        THEN [res |-> Err(SqlErr.foreign_key), db |-> d]
        ELSE [res |-> Ok(TRUE), db |-> inserted]

\* SELECT * FROM proxy_settings ORDER BY id DESC LIMIT 1
get_proxy_settings(d) ==
    IF d.proxy_settings = {} THEN Ok(None)
    ELSE LET row == CHOOSE r \in d.proxy_settings :
                        \A q \in d.proxy_settings : q.id <= r.id
         IN  Ok(Some(row))

\* SELECT * FROM messages WHERE session_id = 'main_chat'; the messages are
\* taken as a set, the order the timestamps give them is left out
get_chat_history(d) == Ok({r \in d.rows["messages"] : r.parent = "main_chat"})

\* a caller is free to make a call
Free(k) == storage.call[k].fn = "" \/ storage.call[k].ret # None

\* save_proxy_settings up to the end of its DELETE statement
SaveProxyDelete(k) ==
    /\ Free(k)
    /\ storage.calls < MaxProxySaves
    /\ \E settings \in ProxySettingsInputs, io \in BOOLEAN :
         /\ db' = IF io THEN [db EXCEPT !.proxy_settings = {}] ELSE db
         /\ storage' = [storage EXCEPT
                !.call[k] = [IdleCall EXCEPT
                    !.fn = "save_proxy_settings", !.arg = <<settings>>,
                    !.i = IF io THEN 1 ELSE 0,
                    !.ret = IF io THEN None ELSE Some(Err(SqlErr.io)),
                    !.before = db],
                !.calls = @ + 1]
    /\ UNCHANGED nonStorageVars

\* the INSERT statement of save_proxy_settings and its return; id is left
\* to AUTOINCREMENT
SaveProxyInsert(k) ==
    /\ ~Free(k)
    /\ storage.call[k].fn = "save_proxy_settings"
    /\ \E io \in BOOLEAN :
         /\ db' = IF io
                  THEN [db EXCEPT
                           !.proxy_settings =
                               @ \cup {[id |-> db.seq + 1, settings |-> storage.call[k].arg[1]]},
                           !.seq = @ + 1]
                  ELSE db
         /\ storage' = [storage EXCEPT
                !.call[k].ret = Some(IF io THEN Ok(TRUE) ELSE Err(SqlErr.io)),
                !.inserted = IF io THEN Some(storage.call[k].arg[1]) ELSE @]
    /\ UNCHANGED nonStorageVars

NextProxySettings ==
    \/ \E k \in Savers : SaveProxyDelete(k)
    \/ \E k \in Savers : SaveProxyInsert(k)

SpecProxySettings == Init /\ [][NextProxySettings]_vars

\* a call of one statement by the first caller: what it is, what it leaves
\* of the database, what it returns
StorageCall(fn, t, arg, out) ==
    /\ Free(1)
    /\ storage.calls < MaxStorageCalls
    /\ db' = out.db
    /\ storage' = [storage EXCEPT
           !.call[1] = [fn |-> fn, table |-> t, arg |-> arg, i |-> 0,
                            ret |-> Some(out.res), before |-> db],
           !.calls = @ + 1]
    /\ UNCHANGED nonStorageVars

\* save_provider, save_agent, save_agent_session, save_message, save_scene,
\* save_scene_session, save_scene_message, save_mcp_server_config and
\* save_setting (whose updated_at no call reads back)
SaveEntity ==
    \E t \in Tables, io \in BOOLEAN :
        \E row \in EntityRows(t) :
            \E out \in {InsertOrReplace(db, t, row, io)} :
                StorageCall("save", t, <<row>>, out)

\* delete_provider, delete_agent, delete_agent_session, delete_message,
\* delete_scene, delete_scene_session, delete_mcp_server_config and
\* delete_setting; scene messages have no delete call
DeleteEntity ==
    \E t \in Tables \ {"scene_messages"}, io \in BOOLEAN :
        \E id \in Ids(t) :
            \E out \in {IF io
                        THEN [res |-> Ok(TRUE),
                              db |-> Delete(db, t, {r \in db.rows[t] : r.id = id})]
                        ELSE [res |-> Err(SqlErr.io), db |-> db]} :
                StorageCall("delete", t, <<[id |-> id, parent |-> "", data |-> ""]>>, out)

\* DELETE FROM messages WHERE session_id = 'main_chat'
DeleteMainChat(d, io) ==
    IF io
    THEN [res |-> Ok(TRUE),
          db |-> Delete(d, "messages",
                        {r \in d.rows["messages"] : r.parent = "main_chat"})]
    ELSE [res |-> Err(SqlErr.io), db |-> d]

\* clear_chat_history
ClearChatHistory ==
    \E io \in BOOLEAN :
        \E out \in {DeleteMainChat(db, io)} :
            StorageCall("clear_chat_history", "messages", <<>>, out)

\* save_chat_history up to the end of its DELETE statement; with no message
\* to insert it returns there
SaveChatHistoryDelete ==
    /\ Free(1)
    /\ storage.calls < MaxStorageCalls
    /\ \E messages \in MessageLists, io \in BOOLEAN :
         \E out \in {DeleteMainChat(db, io)} :
             /\ db' = out.db
             /\ storage' = [storage EXCEPT
                    !.call[1] =
                        [fn |-> "save_chat_history", table |-> "messages",
                         arg |-> messages, i |-> IF io THEN 1 ELSE 0,
                         ret |-> IF ~io THEN Some(out.res)
                                 ELSE IF messages = <<>> THEN Some(Ok(TRUE))
                                 ELSE None,
                         before |-> db],
                    !.calls = @ + 1]
    /\ UNCHANGED nonStorageVars

\* one turn of the loop of save_chat_history: the INSERT OR REPLACE of the
\* next message, the return of its error, or the return after the last one
SaveChatHistoryInsert ==
    /\ ~Free(1)
    /\ storage.call[1].fn = "save_chat_history"
    /\ \E io \in BOOLEAN :
         \E out \in {InsertOrReplace(db, "messages", storage.call[1].arg[storage.call[1].i], io)} :
             /\ db' = out.db
             /\ storage' = [storage EXCEPT
                    !.call[1].i = @ + 1,
                    !.call[1].ret =
                        IF ~out.res.ok THEN Some(out.res)
                        ELSE IF storage.call[1].i = Len(storage.call[1].arg) THEN Some(Ok(TRUE))
                        ELSE None]
    /\ UNCHANGED nonStorageVars

\* the service opened on a database file: a new one, or one of earlier runs;
\* with or without foreign keys enforced on its connections
InitStorage ==
    /\ streams = [c \in StreamCalls |-> IdleStream]
    /\ events = <<>>
    /\ emitters = <<>>
    /\ http = IdleHttp
    /\ probe = IdleProbe
    /\ built = None
    /\ files = InitFiles
    /\ fscall = IdleFsCall
    /\ db \in {EmptyDb(fk) : fk \in BOOLEAN} \cup {SeededDb(fk) : fk \in BOOLEAN}
    /\ storage = IdleStorage

NextStorage ==
    \/ SaveEntity
    \/ DeleteEntity
    \/ ClearChatHistory
    \/ SaveChatHistoryDelete
    \/ SaveChatHistoryInsert

SpecStorage == InitStorage /\ [][NextStorage]_vars

(***************************************************************************)
(* The two client factories on their own: both applied to one proxy_config *)
(* (lib.rs:113-192).                                                       *)
(***************************************************************************)
BuildClients ==
    /\ \E proxy_config \in FactoryConfigs :
           built' = Some([proxy_config |-> proxy_config,
                          http |-> create_http_client(proxy_config),
                          stream |-> create_stream_http_client(proxy_config)])
    /\ UNCHANGED nonFactoryVars

SpecFactory == Init /\ [][BuildClients]_vars

(***************************************************************************)
(* The pump as a task of the runtime (lib.rs:317-361): the response body   *)
(* makes an item ready (a chunk, a read error, or its end), which wakes    *)
(* the task suspended at stream.next().await; the runtime then polls the   *)
(* task, which handles the item up to its next suspension.  A woken task   *)
(* is polled eventually; a body that makes nothing ready leaves the task   *)
(* suspended.                                                              *)
(***************************************************************************)
\* the calls SpecPump follows
PumpCalls == {1, 2}

\* the chunks the bodies have delivered or hold ready
ChunksYielded ==
    ChunksReadUpTo(MaxStreams)
    + Cardinality({c \in StreamCalls :
                      streams[c].ready # None /\ streams[c].ready[1].kind = "chunk"})

\* the body of call c makes its next item ready
BodyYield(c) ==
    /\ streams[c].pump = "running"
    /\ streams[c].ready = None
    /\ \E r \in {ChunkRead(chunk) : chunk \in Chunks}
                 \cup {ErrRead(e) : e \in ReadErrors} \cup {EofRead} :
         /\ r.kind = "chunk" => ChunksYielded < MaxChunks
         /\ streams' = [streams EXCEPT ![c].ready = Some(r)]
    /\ UNCHANGED <<events, emitters>>
    /\ UNCHANGED nonStreamVars

\* the task ending at a read error without a word, as with the error
\* propagated by ? out of the task
PumpPollSilentOnError(c) ==
    /\ streams[c].pump = "running"
    /\ streams[c].ready # None
    /\ LET chunk_result == streams[c].ready[1]
           sid == streams[c].stream_id
       IN  /\ Emit(c, CASE chunk_result.kind = "chunk" -> OnChunk(sid, chunk_result.bytes)
                        [] chunk_result.kind = "eof" -> AfterLoop(sid)
                        [] OTHER -> <<>>)
           /\ streams' = [streams EXCEPT
                  ![c].reads = Append(@, chunk_result),
                  ![c].ready = None,
                  ![c].pump = IF chunk_result.kind = "chunk" THEN @ ELSE "finished"]
    /\ UNCHANGED nonStreamVars

\* the pump of call c is polled with an item ready: one turn of the loop,
\* or the way out of it
PumpPoll(c) ==
    /\ streams[c].pump = "running"
    /\ streams[c].ready # None
    /\ LET chunk_result == streams[c].ready[1]
           sid == streams[c].stream_id
           leaves == chunk_result.kind = "eof"
                     \/ (chunk_result.kind = "err" /\ BreaksOnError)
       IN  /\ Emit(c, (CASE chunk_result.kind = "chunk" -> OnChunk(sid, chunk_result.bytes)
                         [] chunk_result.kind = "err" -> OnReadError(sid, chunk_result.detail)
                         [] OTHER -> <<>>)
                      \o (IF leaves THEN AfterLoop(sid) ELSE <<>>))
           /\ streams' = [streams EXCEPT
                  ![c].reads = Append(@, chunk_result),
                  ![c].ready = None,
                  ![c].pump = IF leaves THEN "finished" ELSE @]
    /\ UNCHANGED nonStreamVars

NextPump ==
    \/ \E c \in PumpCalls : StreamInvoke(c)
    \/ \E c \in PumpCalls : StreamSendFail(c)
    \/ \E c \in PumpCalls : StreamResponse(c)
    \/ \E c \in PumpCalls : BodyYield(c)
    \/ \E c \in PumpCalls : PumpPoll(c)

SpecPump ==
    /\ Init
    /\ [][NextPump]_vars
    /\ \A c \in PumpCalls : WF_vars(PumpPoll(c))

Next ==
    \/ \E c \in StreamCalls : StreamInvoke(c)
    \/ \E c \in StreamCalls : StreamSendFail(c)
    \/ \E c \in StreamCalls : StreamResponse(c)
    \/ \E c \in StreamCalls : PumpChunk(c)
    \/ \E c \in StreamCalls : PumpReadError(c)
    \/ \E c \in StreamCalls : PumpEof(c)

Spec == Init /\ [][Next]_vars

(***************************************************************************)
(* What a call has emitted, and what a stream's body should produce.       *)
(***************************************************************************)
\* the events call c emitted, in emission order
EventsOf(c) ==
    LET idx == SelectSeq([i \in 1..Len(events) |-> i], LAMBDA i : emitters[i] = c)
    IN  [k \in 1..Len(idx) |-> events[idx[k]]]

\* the events carrying stream_id sid, in emission order
EventsFor(sid) == SelectSeq(events, LAMBDA e : e.stream_id = sid)

IsTerminal(e) == e.event_type \in {"end", "error"}
IsData(e) == e.event_type = "data"
IsError(e) == e.event_type = "error"

Count(seq, P(_)) == Len(SelectSeq(seq, P))

Is2xx(status) == 200 <= status /\ status < 300

IsChunk(r) == r.kind = "chunk"
IsErrRead(r) == r.kind = "err"
IsValidChunk(r) == r.kind = "chunk" /\ FromUtf8(r.bytes) # Invalid
IsInvalidChunk(r) == r.kind = "chunk" /\ FromUtf8(r.bytes) = Invalid

\* one data event per decodable chunk of reads, in read order
DataOfReads(sid, reads) ==
    LET valid == SelectSeq(reads, IsValidChunk)
    IN  [k \in 1..Len(valid) |-> DataEvent(sid, FromUtf8(valid[k].bytes))]

\* the single terminal event the last read calls for
TerminalOfReads(sid, reads) ==
    IF reads = <<>> THEN <<>>
    ELSE LET last == reads[Len(reads)]
         IN  CASE last.kind = "eof" -> <<EndEvent(sid)>>
               [] last.kind = "err" -> <<ErrorEvent(sid, Msg.stream_read_failed \o last.detail)>>
               [] OTHER -> <<>>

Started(c) == streams[c].pump # "none"
Finished(c) == streams[c].pump = "finished"

\* C1 (as claimed): every started stream gets exactly one terminal event over
\* the run of its pump: at most one at any time, and one once the pump is over.
C1_ExactlyOneTerminal ==
    \A c \in StreamCalls :
        Started(c) =>
            /\ Count(EventsOf(c), IsTerminal) <= 1
            /\ (Finished(c) => Count(EventsOf(c), IsTerminal) = 1)

\* C2 (as claimed): the data events of a call are those of its chunks in read
\* order, and nothing follows the call's first terminal event.
C2_TerminalIsLast ==
    \A c \in StreamCalls :
        LET evs == EventsOf(c)
        IN  /\ SelectSeq(evs, IsData) = DataOfReads(streams[c].stream_id, streams[c].reads)
            /\ \A i \in 1..Len(evs) : IsTerminal(evs[i]) => i = Len(evs)

\* C3: a failed chunk read is the pump's last read; the pump emitted exactly
\* one error event, carrying the failure detail and the call's stream_id, and
\* no data event after it.
C3_ReadErrorAborts ==
    \A c \in StreamCalls :
        \A i \in 1..Len(streams[c].reads) :
            IsErrRead(streams[c].reads[i]) =>
                LET evs == EventsOf(c)
                    err == ErrorEvent(streams[c].stream_id,
                                      Msg.stream_read_failed \o streams[c].reads[i].detail)
                IN  /\ i = Len(streams[c].reads)
                    /\ Finished(c)
                    /\ Count(evs, IsError) = 1
                    /\ \E k \in 1..Len(evs) :
                         /\ evs[k] = err
                         /\ \A j \in (k + 1)..Len(evs) : ~IsData(evs[j])

C3_Witness ==
    \E c \in StreamCalls :
        /\ Len(streams[c].reads) = 2
        /\ IsValidChunk(streams[c].reads[1])
        /\ IsErrRead(streams[c].reads[2])
        /\ \E d \in StreamCalls : d # c /\ streams[d].pump = "running"

\* C4: a body of decodable chunks c1..cn that ends without a read error gives
\* exactly data(c1), .., data(cn), end.
C4_CleanBodyEvents ==
    \A c \in StreamCalls :
        LET reads == streams[c].reads
            n == Len(reads) - 1
        IN  (/\ Finished(c)
             /\ reads[n + 1].kind = "eof"
             /\ \A i \in 1..n : IsValidChunk(reads[i]))
            => EventsOf(c) =
                   [i \in 1..n |-> DataEvent(streams[c].stream_id, FromUtf8(reads[i].bytes))]
                   \o <<EndEvent(streams[c].stream_id)>>

C4_Witness ==
    \E c \in StreamCalls :
        /\ Finished(c)
        /\ streams[c].reads = <<ChunkRead(<<97>>), ChunkRead(<<195, 169>>), EofRead>>
        /\ EventsOf(c)[2].data = Some(<<233>>)

\* C5: a call answered with a status outside 2xx emitted one error event for
\* its stream_id and nothing else, has no pump, and returned an error.
C5_NonSuccessStatus ==
    \A c \in StreamCalls :
        (streams[c].status # None /\ ~Is2xx(streams[c].status[1])) =>
            /\ Len(EventsOf(c)) = 1
            /\ IsError(EventsOf(c)[1])
            /\ EventsOf(c)[1].stream_id = streams[c].stream_id
            /\ ~Started(c)
            /\ streams[c].pc = "returned"
            /\ ~streams[c].ret[1].ok

C5_Witness ==
    \E c \in StreamCalls :
        /\ streams[c].status = Some(500)
        /\ streams[c].pc = "returned"
        /\ \E d \in StreamCalls : d # c /\ Finished(d)

\* a call whose send() failed: the request went out and no response came
SendFailed(c) ==
    streams[c].pc = "returned" /\ streams[c].sent = 1 /\ streams[c].status = None

\* C6: a call whose send() failed emitted one error event with its stream_id
\* and nothing else, has no pump, and returned an error.
C6_SendFailure ==
    \A c \in StreamCalls :
        SendFailed(c) =>
            /\ Len(EventsOf(c)) = 1
            /\ IsError(EventsOf(c)[1])
            /\ EventsOf(c)[1].stream_id = streams[c].stream_id
            /\ ~Started(c)
            /\ ~streams[c].ret[1].ok

C6_Witness ==
    \E c \in StreamCalls :
        /\ SendFailed(c)
        /\ \E d \in StreamCalls : d # c /\ Finished(d)

\* C7: an undecodable chunk produces no event and leaves the pump reading;
\* the decodable chunks, before and after it, give their data events in
\* order, and a body that then ends gets its end event.
C7_InvalidChunkSkipped ==
    \A c \in StreamCalls :
        LET reads == streams[c].reads
            evs == EventsOf(c)
            sid == streams[c].stream_id
        IN  (\E i \in 1..Len(reads) : IsInvalidChunk(reads[i])) =>
                /\ SelectSeq(evs, IsData) = DataOfReads(sid, reads)
                /\ Count(evs, IsError) = Count(reads, IsErrRead)
                /\ (IsChunk(reads[Len(reads)]) =>
                        streams[c].pump = "running" /\ Count(evs, IsTerminal) = 0)
                /\ (reads[Len(reads)].kind = "eof" =>
                        evs = DataOfReads(sid, reads) \o <<EndEvent(sid)>>)

C7_Witness ==
    \E c \in StreamCalls :
        /\ streams[c].reads = <<ChunkRead(<<195>>), ChunkRead(<<97>>), EofRead>>
        /\ EventsOf(c) = <<DataEvent(streams[c].stream_id, <<97>>),
                           EndEvent(streams[c].stream_id)>>

\* C8: a call has returned an acknowledgment exactly when it got a 2xx
\* response, and exactly then it has a pump; the acknowledgment embeds the
\* stream_id (it is the fixed text followed by the id) and is there from the
\* moment the pump is, before any read.
C8_AckIffSuccess ==
    \A c \in StreamCalls :
        LET acked == streams[c].ret # None /\ streams[c].ret[1].ok
            got2xx == streams[c].status # None /\ Is2xx(streams[c].status[1])
        IN  /\ acked <=> got2xx
            /\ acked <=> Started(c)
            /\ acked => /\ streams[c].ret[1].val = Msg.stream_started \o streams[c].stream_id
                        /\ streams[c].pc = "returned"

C8_Witness ==
    \E c \in StreamCalls :
        /\ streams[c].ret # None /\ streams[c].ret[1].ok
        /\ streams[c].pump = "running"
        /\ streams[c].reads = <<>>
        /\ EventsOf(c) = <<>>
        /\ Contains(streams[c].ret[1].val, streams[c].stream_id)

DistinctIds ==
    \A c, d \in StreamCalls :
        (c # d /\ streams[c].pc # "idle" /\ streams[d].pc # "idle")
            => streams[c].stream_id # streams[d].stream_id

\* C9 (as claimed): with pairwise distinct stream_ids, the events carrying a
\* started stream's id are its data events in chunk order followed by its
\* one terminal event, whatever the other streams do.
C9_PerStreamProjection ==
    DistinctIds =>
        \A c \in StreamCalls :
            Started(c) =>
                EventsFor(streams[c].stream_id) =
                    DataOfReads(streams[c].stream_id, streams[c].reads)
                    \o TerminalOfReads(streams[c].stream_id, streams[c].reads)

\* C10: once the body of a response has been read, whatever the status, the
\* call has returned Ok(HttpResponse) with that status, success set exactly
\* for 200 <= status < 300, and no error.
C10_StatusIsNotAnError ==
    (http.body_read # None /\ http.body_read[1].ok) =>
        /\ http.pc = "done"
        /\ http.ret # None
        /\ http.ret[1].ok
        /\ http.ret[1].val.status = http.status[1]
        /\ http.ret[1].val.success = (200 <= http.status[1] /\ http.status[1] < 300)
        /\ http.ret[1].val.error = None
        /\ http.ret[1].val.body = http.body_read[1].val

C10_Witness ==
    /\ http.body_read = Some(Ok("not found"))
    /\ http.status = Some(404)
    /\ http.ret[1].ok
    /\ http.ret[1].val.status = 404
    /\ ~http.ret[1].val.success
    /\ http.ret[1].val.error = None

(***************************************************************************)
(* The commands that send a request.                                       *)
(***************************************************************************)
AllowedMethods == {"GET", "POST", "PUT", "DELETE"}
KnownProxyTypes == {"http", "https", "socks5"}

\* the method, in capitals, is none of the allow-list
MethodRefused(method) == ToUppercase(method) \notin AllowedMethods

\* C11: a send_http_request or send_stream_request call given a method
\* outside GET/POST/PUT/DELETE (compared in capitals, as the code compares)
\* has returned an error in the step that invoked it and has sent nothing.
C11_UnsupportedMethod ==
    /\ (http.pc # "idle" /\ MethodRefused(http.method)) =>
           /\ http.pc = "done"
           /\ ~http.ret[1].ok
           /\ http.sent = 0
           /\ http.request = None
    /\ \A c \in StreamCalls :
           (streams[c].pc # "idle" /\ MethodRefused(streams[c].method)) =>
               /\ streams[c].pc = "returned"
               /\ ~streams[c].ret[1].ok
               /\ streams[c].sent = 0
               /\ ~Started(c)
               /\ EventsOf(c) = <<>>

C11_Witness ==
    /\ http.method = "PATCH"
    /\ http.client # None
    /\ http.ret = Some(Err(Msg.unsupported_method))
    /\ http.sent = 0

\* C12: no invocation of the three commands has sent more than one request,
\* and a call that is over after a failed attempt has sent exactly that one.
C12_SingleAttempt ==
    /\ http.sent <= 1
    /\ probe.sent <= 1
    /\ \A c \in StreamCalls : streams[c].sent <= 1
    /\ (http.pc = "done" /\ http.ret # None /\ ~http.ret[1].ok /\ http.client # None
           /\ ~MethodRefused(http.method)) => http.sent = 1

C12_Witness ==
    /\ http.pc = "done"
    /\ http.body_read # None
    /\ ~http.body_read[1].ok
    /\ ~http.ret[1].ok
    /\ http.sent = 1

\* proxy_config is enabled with a proxy_type the factories do not know
UnknownProxyType(proxy_config) ==
    /\ proxy_config # None
    /\ proxy_config[1].enabled
    /\ proxy_config[1].proxy_type \notin KnownProxyTypes

\* C15: with an enabled proxy of unknown type no client is built, and each of
\* the three commands has returned an error without sending a request.
C15_UnknownProxyType ==
    /\ (http.pc # "idle" /\ UnknownProxyType(http.proxy_config)) =>
           /\ ~create_http_client(http.proxy_config).ok
           /\ http.pc = "done"
           /\ http.client = None
           /\ ~http.ret[1].ok
           /\ http.sent = 0
    /\ (probe.pc # "idle" /\ UnknownProxyType(probe.proxy_config)) =>
           /\ probe.pc = "done"
           /\ probe.client = None
           /\ ~probe.ret[1].ok
           /\ probe.sent = 0
    /\ \A c \in StreamCalls :
           (streams[c].pc # "idle" /\ UnknownProxyType(streams[c].proxy_config)) =>
               /\ ~create_stream_http_client(streams[c].proxy_config).ok
               /\ streams[c].pc = "returned"
               /\ ~streams[c].ret[1].ok
               /\ streams[c].sent = 0
               /\ ~Started(c)

C15_Witness ==
    /\ http.proxy_config = Some(BadTypeProxy)
    /\ http.method = "GET"
    /\ http.pc = "done"
    /\ ~http.ret[1].ok
    /\ http.sent = 0

\* the three prefixes the factories remove from a host
HostPrefixes == {"http://", "https://", "socks5://"}

\* the host without the one prefix it carries, or the host itself
BareHost(host) ==
    LET carried == {p \in HostPrefixes : StripPrefix(host, p) # None}
    IN  IF carried = {} THEN host
        ELSE StripPrefix(host, CHOOSE p \in carried : TRUE)[1]

\* an enabled configuration of a known type
EnabledKnown(proxy_config) ==
    /\ proxy_config # None
    /\ proxy_config[1].enabled
    /\ proxy_config[1].proxy_type \in KnownProxyTypes

\* the factories were given a configuration from which a proxy is built: enabled,
\* of a known type, with a host reqwest takes
ProxyBuilt ==
    /\ built # None
    /\ EnabledKnown(built[1].proxy_config)
    /\ ~Contains(built[1].proxy_config[1].host, " ")

\* C13: for an enabled configuration of type http, https or socks5 both
\* factories attach a proxy whose URL is {proxy_type}://{h}:{port}, h being
\* the host without its leading http://, https:// or socks5:// prefix.
C13_ProxyUrl ==
    ProxyBuilt =>
        LET config == built[1].proxy_config[1]
            url == config.proxy_type \o "://" \o BareHost(config.host) \o ":"
                       \o ToString(config.port)
        IN  /\ built[1].http.ok
            /\ built[1].stream.ok
            /\ built[1].http.val.proxy # None
            /\ built[1].stream.val.proxy # None
            /\ built[1].http.val.proxy[1].url = url
            /\ built[1].stream.val.proxy[1].url = url

C13_Witness ==
    /\ built # None
    /\ built[1].proxy_config # None
    /\ built[1].proxy_config[1].enabled
    /\ built[1].proxy_config[1].proxy_type = "http"
    /\ built[1].proxy_config[1].host = "socks5://proxy.local"
    /\ built[1].http.ok
    /\ built[1].http.val.proxy[1].url = "http://proxy.local:1080"
    /\ built[1].stream.val.proxy[1].url = "http://proxy.local:1080"

\* C14: given no configuration or a disabled one, both factories return a
\* client with no proxy, whatever the type, host and credentials say.
C14_DisabledIsDirect ==
    (built # None /\ (built[1].proxy_config = None
                         \/ ~built[1].proxy_config[1].enabled)) =>
        /\ built[1].http.ok
        /\ built[1].stream.ok
        /\ built[1].http.val.proxy = None
        /\ built[1].stream.val.proxy = None

C14_Witness ==
    /\ built # None
    /\ built[1].proxy_config # None
    /\ ~built[1].proxy_config[1].enabled
    /\ built[1].proxy_config[1].proxy_type = "ftp"
    /\ built[1].proxy_config[1].host = "bad host"
    /\ built[1].proxy_config[1].requires_auth
    /\ built[1].http.ok
    /\ built[1].stream.ok
    /\ built[1].http.val.proxy = None

\* C16: when a proxy is built, it carries basic auth exactly when
\* requires_auth is set and username and password are both there, the pair
\* being those two; with a credential missing the client is built all the
\* same and its proxy carries none.
C16_AuthIffBothCredentials ==
    ProxyBuilt =>
        LET config == built[1].proxy_config[1]
            both == /\ config.requires_auth
                    /\ config.username # None
                    /\ config.password # None
        IN  /\ built[1].http.ok
            /\ built[1].stream.ok
            /\ \A client \in {built[1].http.val, built[1].stream.val} :
                   /\ client.proxy # None
                   /\ client.proxy[1].auth # None <=> both
                   /\ both => client.proxy[1].auth =
                                  Some(<<config.username[1], config.password[1]>>)

C16_Witness ==
    /\ ProxyBuilt
    /\ built[1].proxy_config[1].requires_auth
    /\ built[1].proxy_config[1].username # None
    /\ built[1].proxy_config[1].password = None
    /\ built[1].http.ok
    /\ built[1].stream.ok
    /\ built[1].stream.val.proxy[1].auth = None

\* C17 (as claimed): the one-shot client has a total timeout of 30 seconds
\* and the streaming client has none.
C17_ThirtySeconds ==
    built # None =>
        /\ built[1].http.ok => built[1].http.val.timeout = Some(30)
        /\ built[1].stream.ok => built[1].stream.val.timeout = None

\* C17 (amended): the one-shot client has a total timeout of 300 seconds and
\* the streaming client has none, with or without a proxy.
C17_Timeouts ==
    built # None =>
        /\ built[1].http.ok => built[1].http.val.timeout = Some(300)
        /\ built[1].stream.ok => built[1].stream.val.timeout = None

C17_Witness ==
    /\ ProxyBuilt
    /\ built[1].http.ok
    /\ built[1].stream.ok
    /\ built[1].http.val.timeout = Some(300)
    /\ built[1].stream.val.timeout = None

\* the three grounds on which a path argument is to be refused, read off the
\* text of the path: some piece between "/" is "..", the path begins with
\* "/", or its last piece ends in a "." and an extension that, in small
\* letters, is not on the list
HasParentDir(path) == \E i \in 1..Len(Split(path)) : Split(path)[i] = ".."
IsAbsolutePath(path) == StripPrefix(path, "/") # None
ExtensionOutsideList(path) ==
    LET pieces == Split(path)
        last == pieces[Len(pieces)]
        dot == LastDot(last)
    IN  /\ dot > 1
        /\ dot < Len(last)
        /\ ToLowercase(SubSeq(last, dot + 1, Len(last))) \notin allowed_extensions
Refused(path) ==
    HasParentDir(path) \/ IsAbsolutePath(path) \/ ExtensionOutsideList(path)

\* C20: a file-system command given a path argument with a ".." component,
\* an absolute one, or one whose extension is not on the list, returns
\* success=false, leaves every file and directory as it was, makes none of
\* its std::fs calls, and does not even resolve the refused path (an
\* argument before it that passed the check has been resolved by then).
C20_UnsafePathRefused ==
    [][(/\ fscall'.calls # fscall.calls
        /\ \E i \in 1..Len(fscall'.args) : Refused(fscall'.args[i])) =>
           /\ files' = files
           /\ fscall'.ops = <<>>
           /\ fscall'.ret[1].ok
           /\ ~fscall'.ret[1].val.success
           /\ fscall'.ret[1].val.error # <<>>
           /\ \A k \in 1..Len(fscall'.lookups) : ~Refused(fscall'.lookups[k][2])]_vars

C20_Witness ==
    /\ fscall.cmd = "fs_move_item"
    /\ fscall.args = <<"a.txt", "d/../a.txt">>
    /\ fscall.ret = Some(Failure(FsMsg.target_invalid \o FsMsg.path_unsafe))
    /\ fscall.ops = <<>>
    /\ files["a.txt"].kind = "file"

\* C18: a test_proxy_connection call that is over returned Ok exactly when
\* its client could be built and the probe GET was answered with a 2xx.
C18_ProbeOkIff2xx ==
    probe.pc = "done" =>
        (probe.ret[1].ok <=>
            (/\ ~UnknownProxyType(probe.proxy_config)
             /\ probe.status # None
             /\ Is2xx(probe.status[1])))

C18_Witness ==
    /\ probe.pc = "done"
    /\ probe.status = Some(300)
    /\ probe.client # None
    /\ ~probe.ret[1].ok

\* C19: whichever call it is, a test_proxy_connection answered 200 returns
\* the same success, and no step of the command changes anything but the
\* call itself: the streams, the emitted events, the one-shot call, the
\* working directory are as before.
C19_ProbeIdempotent ==
    [][probe' # probe =>
          /\ nonProbeVars' = nonProbeVars
          /\ (probe'.pc = "done" /\ probe'.status = Some(200)) =>
                 probe'.ret = Some(Ok(Msg.proxy_test_ok \o "200)"))]_vars

C19_Witness ==
    /\ probe.calls = 2
    /\ probe.pc = "done"
    /\ probe.status = Some(200)
    /\ probe.ret[1].ok
    /\ events # <<>>
(***************************************************************************)
(* The texts and the failures of the relay commands.                       *)
(***************************************************************************)
\* a call answered with a status outside 2xx
AnsweredNon2xx(c) == streams[c].status # None /\ ~Is2xx(streams[c].status[1])

\* call c emitted one error event carrying text, and returned Err(text)
EmittedAndReturned(c, text) ==
    /\ EventsOf(c) = <<ErrorEvent(streams[c].stream_id, text)>>
    /\ streams[c].ret = Some(Err(text))

\* C21 (as claimed): a call answered with a status outside 2xx emits an error
\* event whose text is "HTTP error: " followed by the status in decimal, and
\* returns that same text as its error.
C21_EnglishText ==
    \A c \in StreamCalls :
        AnsweredNon2xx(c) =>
            EmittedAndReturned(c, "HTTP error: " \o ToString(streams[c].status[1]))

\* C21 (amended): a call answered with a status outside 2xx emits an error
\* event whose text is "HTTP<9519><8BEF>: " (the Chinese for "HTTP error")
\* followed by the status in decimal, and returns that same text as its error.
C21_StatusErrorText ==
    \A c \in StreamCalls :
        AnsweredNon2xx(c) =>
            EmittedAndReturned(c, "HTTP<9519><8BEF>: " \o ToString(streams[c].status[1]))

C21_Witness ==
    /\ streams[1].status = Some(500)
    /\ streams[1].ret = Some(Err("HTTP<9519><8BEF>: 500"))
    /\ events = <<ErrorEvent(streams[1].stream_id, "HTTP<9519><8BEF>: 500")>>

(***************************************************************************)
(* Termination of the pump.                                                *)
(***************************************************************************)
\* the body of call c has ended or failed, and the pump has not seen it yet
BodyOver(c) ==
    streams[c].ready # None /\ streams[c].ready[1].kind \in {"eof", "err"}

\* the pump of call c has read the end of the body or a read error
ReadTheEnd(c) ==
    \E i \in 1..Len(streams[c].reads) : streams[c].reads[i].kind \in {"eof", "err"}

\* C22: (1) once the body of a started stream has ended or failed, the pump
\* eventually emits a terminal event and is over; (2) a pump is over only
\* after it read the end of the body or a read error, as its last read; (3)
\* as long as it has read neither, the pump is still running and the call has
\* emitted no terminal event.
C22_PumpTermination ==
    /\ \A c \in PumpCalls :
           BodyOver(c) ~> (Finished(c) /\ Count(EventsOf(c), IsTerminal) >= 1)
    /\ [](\A c \in PumpCalls :
             Finished(c) =>
                 /\ ReadTheEnd(c)
                 /\ streams[c].reads[Len(streams[c].reads)].kind \in {"eof", "err"})
    /\ [](\A c \in PumpCalls :
             (Started(c) /\ ~ReadTheEnd(c)) =>
                 /\ streams[c].pump = "running"
                 /\ Count(EventsOf(c), IsTerminal) = 0)

\* the body of one stream has ended while the other pump, two chunks read, is
\* still waiting for more
C22_Witness ==
    \E c, d \in PumpCalls :
        /\ c # d
        /\ streams[c].ready = Some(EofRead)
        /\ streams[c].pump = "running"
        /\ streams[d].pump = "running"
        /\ streams[d].ready = None
        /\ Len(streams[d].reads) = 2
        /\ Count(EventsOf(d), IsTerminal) = 0

(***************************************************************************)
(* Streams that share a stream_id.                                         *)
(***************************************************************************)
\* the events the pump of call c emits for what it has read so far
OwnSequence(c) ==
    LET sid == streams[c].stream_id
        reads == streams[c].reads
        last == reads[Len(reads)]
    IN  DataOfReads(sid, reads)
        \o (IF reads = <<>> THEN <<>>
            ELSE CASE last.kind = "eof" -> <<EndEvent(sid)>>
                   [] last.kind = "err" ->
                        <<ErrorEvent(sid, Msg.stream_read_failed \o last.detail),
                          EndEvent(sid)>>
                   [] OTHER -> <<>>)

\* C23: when two started calls were given the same stream_id, both were
\* acknowledged like any other call; the events carrying that stream_id are
\* exactly the events emitted by the calls given it, and the ones emitted by
\* either call are, in order, its pump's own sequence (the shared sequence is
\* an interleaving of the pumps' sequences); a pump that is over has
\* contributed its own terminal event.
C23_SharedIdInterleaves ==
    \A c \in StreamCalls :
        (/\ Started(c)
         /\ \E d \in StreamCalls :
                d # c /\ Started(d) /\ streams[d].stream_id = streams[c].stream_id) =>
            LET sid == streams[c].stream_id
                own == EventsOf(c)
            IN  /\ streams[c].ret = Some(Ok(Msg.stream_started \o sid))
                /\ \A i \in 1..Len(events) :
                       events[i].stream_id = sid <=> streams[emitters[i]].stream_id = sid
                /\ own = OwnSequence(c)
                /\ Finished(c) => IsTerminal(own[Len(own)])

\* two calls share "s1"; the second was invoked while the first pump ran, and
\* their data and end events alternate
C23_Witness ==
    /\ streams[1].stream_id = "s1"
    /\ streams[2].stream_id = "s1"
    /\ Finished(1)
    /\ Finished(2)
    /\ emitters = <<1, 2, 1, 2>>
    /\ \A i \in 1..4 : events[i].stream_id = "s1"
    /\ IsData(events[1]) /\ IsData(events[2])
    /\ events[3] = EndEvent("s1") /\ events[4] = EndEvent("s1")

(***************************************************************************)
(* The two failures of send_http_request after the request went out.       *)
(***************************************************************************)
HasPrefix(s, p) == Len(s) >= Len(p) /\ SubSeq(s, 1, Len(p)) = p

\* the request went out and the call is over without a response
HttpSendFailed == http.pc = "done" /\ http.sent = 1 /\ http.status = None

\* a response came and reading its body failed
HttpBodyFailed == http.body_read # None /\ ~http.body_read[1].ok

\* the error texts a failed send can give, and those a failed body read can
SendFailureTexts == {Msg.http_request_failed \o e : e \in SendErrors \cup ReadErrors}
BodyFailureTexts == {Msg.read_body_failed \o e : e \in SendErrors \cup ReadErrors}

\* C24: a failed send and a failed body read both make the call return Err,
\* never an HttpResponse, although the second has a status; the text of
\* either names its own failure, and no text is one that the other failure
\* can give, whatever the transport reports.
C24_TwoFailures ==
    /\ HttpSendFailed =>
           /\ http.ret # None /\ ~http.ret[1].ok
           /\ HasPrefix(http.ret[1].val, Msg.http_request_failed)
           /\ http.ret[1].val \notin BodyFailureTexts
    /\ HttpBodyFailed =>
           /\ http.pc = "done"
           /\ http.status # None
           /\ http.ret # None /\ ~http.ret[1].ok
           /\ http.ret[1].val = Msg.read_body_failed \o http.body_read[1].val
           /\ http.ret[1].val \notin SendFailureTexts

C24_Witness ==
    /\ http.status = Some(200)
    /\ http.headers # {}
    /\ http.body_read = Some(Err("connection reset"))
    /\ http.ret = Some(Err(Msg.read_body_failed \o "connection reset"))

(***************************************************************************)
(* The two client factories side by side.                                  *)
(***************************************************************************)
\* C25: whatever the proxy_config, the two factories fail together, with the
\* same error, or succeed together, and then their clients are alike in
\* everything (proxy URL, credentials, user agent) but the timeout: the
\* one-shot client has one, the streaming client has none.
C25_FactoriesAgree ==
    built # None =>
        LET one_shot == built[1].http
            streaming == built[1].stream
        IN  /\ one_shot.ok = streaming.ok
            /\ ~one_shot.ok => one_shot.val = streaming.val
            /\ one_shot.ok =>
                   /\ [one_shot.val EXCEPT !.timeout = None] = streaming.val
                   /\ one_shot.val.timeout # streaming.val.timeout

\* a socks5 proxy whose host carries the http:// prefix, with credentials
C25_Witness ==
    /\ built # None
    /\ built[1].proxy_config =
           Some(ProxyCfg(TRUE, "socks5", "http://proxy.local", 1080, TRUE,
                         Some("user"), Some("secret")))
    /\ built[1].http.ok
    /\ built[1].stream.ok
    /\ built[1].stream.val.proxy =
           Some([url |-> "socks5://proxy.local:1080", auth |-> Some(<<"user", "secret">>)])
    /\ built[1].http.val.proxy = built[1].stream.val.proxy

(***************************************************************************)
(* Refusals of send_stream_request before the send.                        *)
(***************************************************************************)
\* the parameters of call c fail validation: no client can be built from
\* its proxy_config, or its method is none of the four
FailsValidation(c) ==
    /\ streams[c].pc # "idle"
    /\ \/ UnknownProxyType(streams[c].proxy_config)
       \/ MethodRefused(streams[c].method)

\* C26: a call whose parameters fail validation returned Err without sending
\* and emitted nothing; a call that returned Err after sending (the send
\* failed, or the status was outside 2xx) emitted exactly one event, the error
\* event carrying the returned text; and a call that emitted an error event
\* at its return had sent its request.
C26_NoEventBeforeSend ==
    \A c \in StreamCalls :
        /\ FailsValidation(c) =>
               /\ streams[c].pc = "returned"
               /\ streams[c].sent = 0
               /\ ~streams[c].ret[1].ok
               /\ EventsOf(c) = <<>>
        /\ (streams[c].ret # None /\ ~streams[c].ret[1].ok) =>
               IF streams[c].sent = 0
               THEN FailsValidation(c) /\ EventsOf(c) = <<>>
               ELSE /\ SendFailed(c) \/ AnsweredNon2xx(c)
                    /\ EventsOf(c) = <<ErrorEvent(streams[c].stream_id,
                                                  streams[c].ret[1].val)>>

\* after the send_stream_request of an unbuildable proxy and before any
\* other command, the event channel has carried nothing
C26_Witness ==
    /\ streams[1].proxy_config = Some(BadTypeProxy)
    /\ streams[1].stream_id = "s1"
    /\ streams[1].pc = "returned"
    /\ streams[1].ret =
           Some(Err(Msg.create_stream_client_failed \o Msg.unsupported_proxy_type))
    /\ events = <<>>

(***************************************************************************)
(* The storage service.                                                    *)
(***************************************************************************)
\* no save_proxy_settings call is in progress
NoSaveInProgress == \A k \in Savers : Free(k)

\* C27 (as claimed): whenever no save_proxy_settings call is in progress, the
\* proxy_settings table holds at most one row, and get_proxy_settings returns
\* the settings that were inserted last.
C27_AtMostOneRow ==
    NoSaveInProgress =>
        /\ Cardinality(db.proxy_settings) <= 1
        /\ db.proxy_settings # {} =>
               /\ get_proxy_settings(db).ok
               /\ get_proxy_settings(db).val # None
               /\ Some(get_proxy_settings(db).val[1].settings) = storage.inserted

\* the messages of the main chat, and those of the other sessions
MainChat(d) == {r \in d.rows["messages"] : r.parent = "main_chat"}
OtherSessions(d) == {r \in d.rows["messages"] : r.parent # "main_chat"}

\* the elements of a sequence
Range(seq) == {seq[i] : i \in 1..Len(seq)}

\* C28 (as claimed): when save_chat_history has returned an error, the main
\* chat history is what it was before the call; when it has returned Ok,
\* get_chat_history returns exactly the messages it was given.
C28_AllOrNothing ==
    LET call == storage.call[1]
    IN  (call.fn = "save_chat_history" /\ call.ret # None) =>
            IF call.ret[1].ok
            THEN get_chat_history(db) = Ok(Range(call.arg))
            ELSE MainChat(db) = MainChat(call.before)

\* C29 (as claimed): during and after a save_chat_history or
\* clear_chat_history call, the messages of every session other than
\* main_chat are those stored before the call.
C29_OnlyMainChat ==
    LET call == storage.call[1]
    IN  call.fn \in {"save_chat_history", "clear_chat_history"} =>
            OtherSessions(db) = OtherSessions(call.before)

====
